---- MODULE Spec2Model ----
(***************************************************************************)
(* A model of bluper, a BLE HID (keyboard + mouse) emulator.               *)
(*                                                                         *)
(*   Spec       the session arbitrator, ble_owner_task of src/src/ble.rs:  *)
(*              bring-up, then the run loop that handles one peripheral    *)
(*              event or one input command at a time.                      *)
(*   SpecFifo   the key handling of the same run loop, with a history      *)
(*              variable that remembers the order in which the pressed     *)
(*              usages were inserted.                                      *)
(*   SpecBattery, SpecScript  the battery and key handling of the run    *)
(*              loop, with a history variable that remembers the steps     *)
(*              handled so far.                                            *)
(*   SpecCodec  the pure functions of src/src/hid.rs, applied to inputs    *)
(*              drawn from bounded sets.                                   *)
(*   SpecUi     the input producer App of src/src/ui.rs: mouse events.     *)
(*   SpecUiKeys the same App: keyboard and focus events, with the key      *)
(*              table keycode_to_hid of src/src/hid.rs.                    *)
(*   SpecAdvert the run loop under StateUpdate events only.                *)
(*   SpecChan   the bounded command channel between App::send and the      *)
(*              cmd_rx.recv() of the run loop.                             *)
(*   SpecMain   the run loop of the monolithic variant, ble_owner_task of  *)
(*              src/src/main.rs.                                           *)
(*   SpecKeyUp  the key handling of the run loop, with a history variable  *)
(*              that remembers the usages released.                        *)
(*   SpecShim   ble_owner_task with a history variable that follows the    *)
(*              advertising state of the peripheral.                       *)
(*   SpecRead   Battery commands and read requests, with the history.      *)
(*   SpecFocus  App, command channel and run loop together: key events,    *)
(*              then the loss of the focus.                                *)
(*   SpecExit   command channel and run loop, with the ways out of the     *)
(*              loop.                                                      *)
(*                                                                         *)
(* Bytes are integers 0..255, signed bytes are integers -128..127, an      *)
(* Option is a sequence of length 0 (None) or 1 (Some).                    *)
(***************************************************************************)
EXTENDS Integers, Sequences, FiniteSets

VARIABLES
    \* ---- ble_owner_task (src/src/ble.rs) ----
    pc,              \* position of the task
    delay_ms,        \* local of the power-on wait
    advertising,     \* local flag of the task
    modifiers,       \* u8 modifier mask
    pressed,         \* BTreeSet<u8> of pressed ordinary usages
    input_notify,    \* subscription flag of the input-report characteristic
    battery_notify,  \* subscription flag of the battery-level characteristic
    last_battery,    \* u8
    \* ---- what the environment of the task observes ----
    handled,         \* the event or command the last step handled
    calls,           \* the peripheral calls and replies the last step made, in order
    polls,           \* unpowered polls so far in the power-on wait
    insOrder,        \* SpecFifo only: the pressed usages, oldest insertion first
    history,         \* SpecBattery, SpecScript, SpecRead: the steps handled so far
    released,        \* SpecKeyUp only: usages whose last processed key command was a KeyUp
    radio,           \* SpecShim only: TRUE while the peripheral really advertises
    \* ---- the codec under test (SpecCodec) ----
    call,            \* <<function name, arguments...>>
    ret,             \* <<>> before the function is applied, <<result>> after
    \* ---- App (src/src/ui.rs) ----
    mouse_buttons,   \* u8 button mask
    cursor_last,     \* Option<(x, y)>, in half pixels
    wheel_px_accum,  \* pixels of wheel motion not yet turned into notches
    hid_mod_mask,    \* u8
    pressed_usages,  \* BTreeSet<u8>
    exiting,         \* bool
    sent,            \* the commands the last window event passed to App::send
    event,           \* the window event the last step handled
    \* ---- the command channel (SpecChan) ----
    chan,            \* the commands in the channel, oldest first
    sends,           \* the number of commands each producer has sent
    received,        \* the commands cmd_rx.recv() has returned, oldest first
    dropped,         \* the commands try_send refused
    \* ---- the monolithic variant, ble_owner_task of src/src/main.rs (SpecMain) ----
    notify,          \* its one subscription flag
    peer_subs,       \* the characteristics the peer is subscribed to
    prev_level       \* Option<u8>: the level of the Battery command handled last

bleVars == <<pc, delay_ms, advertising, modifiers, pressed, input_notify,
             battery_notify, last_battery, handled, calls, polls, insOrder,
             history, released, radio>>
codecVars == <<call, ret>>
uiVars == <<mouse_buttons, cursor_last, wheel_px_accum, hid_mod_mask,
            pressed_usages, exiting, sent, event>>
chanVars == <<chan, sends, received, dropped>>
mainVars == <<notify, peer_subs, prev_level>>
vars == <<bleVars, codecVars, uiVars, chanVars, mainVars>>

(***************************************************************************)
(* Bounds of the model.                                                    *)
(***************************************************************************)
\* Ordinary usages the environment of Spec presses: 0x04 .. 0x03 + NumOrdinary.
NumOrdinary == 2
\* Ordinary usages the environment of SpecKeys and SpecFifo presses:
\* 0x04 .. 0x03 + NumKeys, one more than the pressed set holds.
NumKeys == 7
\* Unpowered polls the power-on wait counts; further polls are not counted.
MaxPolls == 7
\* Ordinary usages the key sets given to build_keyboard_report are drawn from:
\* 0x04 .. 0x03 + NumCodecKeys, besides 0x00 and 0xFF.
NumCodecKeys == 7
\* Steps of the run loop that SpecBattery and SpecScript remember in history.
MaxHistory == 6
\* Capacity of the command channel of SpecChan (512 in the program).
ChannelCap == 2
\* Commands each producer of SpecChan sends.
MaxSends == 3
\* Key events the window of SpecFocus delivers before it loses the focus.
MaxKeyEvents == 3

(***************************************************************************)
(* Program constants.                                                      *)
(***************************************************************************)
RID_MOUSE == 1
RID_KEYBD == 2
UUID_HID_REPORT == 10829
UUID_BATTERY_LEVEL == 10777
UUID_HID_PROTOCOL_MODE == 10830
\* The 6 of `while pressed.len() > 6` and of `take(6)`.
MaxKeys == 6
InitialBattery == 95
InitialDelayMs == 50
MaxDelayMs == 1000

None == <<>>
Some(x) == <<x>>

\* Usages and values the environment draws from.
Ordinary == 4 .. (3 + NumOrdinary)
ModSample == {225, 231}
Usages == Ordinary \cup ModSample
KeyOrdinary == 4 .. (3 + NumKeys)
KeyUsages == KeyOrdinary \cup ModSample
\* SpecMods: the eight modifier usages, their two neighbours and one letter.
ModifierUsages == 224 .. 231
ModsUsages == {4} \cup (223 .. 232)
BatteryLevels == {0, 95, 100}
MouseSamples == {<<0, 0, 0, 0>>, <<1, -10, 5, 1>>, <<7, -128, 127, -1>>}
Characteristics == {UUID_HID_REPORT, UUID_BATTERY_LEVEL, UUID_HID_PROTOCOL_MODE}

(***************************************************************************)
(* u8 arithmetic.                                                          *)
(***************************************************************************)
RECURSIVE BitOr(_, _)
BitOr(a, b) ==
    IF a = 0 THEN b
    ELSE IF b = 0 THEN a
    ELSE (IF a % 2 = 1 \/ b % 2 = 1 THEN 1 ELSE 0) + 2 * BitOr(a \div 2, b \div 2)

RECURSIVE BitAndNot(_, _)
BitAndNot(a, m) ==
    IF a = 0 THEN 0
    ELSE (IF a % 2 = 1 /\ m % 2 = 0 THEN 1 ELSE 0) + 2 * BitAndNot(a \div 2, m \div 2)

\* A cast that saturates at 0 instead of keeping the bits.
AsU8_saturating(v) == IF v < 0 THEN 0 ELSE v

\* `v as u8` of an i8: the same 8 bits read as unsigned.
AsU8(v) == IF v < 0 THEN v + 256 ELSE v

(***************************************************************************)
(* src/src/hid.rs                                                          *)
(***************************************************************************)
\* The table with its last row missing.
keyboard_usage_to_modifier_short(usage) ==
    CASE usage = 224 -> Some(1)
      [] usage = 225 -> Some(2)
      [] usage = 226 -> Some(4)
      [] usage = 227 -> Some(8)
      [] usage = 228 -> Some(16)
      [] usage = 229 -> Some(32)
      [] usage = 230 -> Some(64)
      [] OTHER -> None

\* The table with the row of RShift carrying the bit of RCtrl.
keyboard_usage_to_modifier_copied(usage) ==
    CASE usage = 224 -> Some(1)
      [] usage = 225 -> Some(2)
      [] usage = 226 -> Some(4)
      [] usage = 227 -> Some(8)
      [] usage = 228 -> Some(16)
      [] usage = 229 -> Some(16)
      [] usage = 230 -> Some(64)
      [] usage = 231 -> Some(128)
      [] OTHER -> None

keyboard_usage_to_modifier(usage) ==
    CASE usage = 224 -> Some(1)
      [] usage = 225 -> Some(2)
      [] usage = 226 -> Some(4)
      [] usage = 227 -> Some(8)
      [] usage = 228 -> Some(16)
      [] usage = 229 -> Some(32)
      [] usage = 230 -> Some(64)
      [] usage = 231 -> Some(128)
      [] OTHER -> None

build_mouse_report(buttons, dx, dy, wheel) ==
    <<RID_MOUSE, buttons, AsU8(dx), AsU8(dy), AsU8(wheel)>>

\* BTreeSet::iter(): the elements in ascending order.
RECURSIVE BTreeIter(_)
BTreeIter(s) ==
    IF s = {} THEN <<>>
    ELSE LET first == CHOOSE x \in s : \A y \in s : x <= y
         IN  <<first>> \o BTreeIter(s \ {first})

Take(seq, n) == SubSeq(seq, 1, IF Len(seq) < n THEN Len(seq) ELSE n)

\* The report without its zero padding: 3 + min(6, n) bytes.
build_keyboard_report_unpadded(mods, keys) ==
    <<RID_KEYBD, mods, 0>> \o Take(BTreeIter(keys), MaxKeys)

\* The report filled from the last 6 usages of the iteration instead of the first.
build_keyboard_report_last(mods, keys) ==
    LET all == BTreeIter(keys)
        head == IF Len(all) > MaxKeys
                THEN SubSeq(all, Len(all) - MaxKeys + 1, Len(all))
                ELSE all
    IN  [i \in 1 .. 9 |->
            CASE i = 1 -> RID_KEYBD
              [] i = 2 -> mods
              [] i = 3 -> 0
              [] OTHER -> IF i - 3 <= Len(head) THEN head[i - 3] ELSE 0]

build_keyboard_report(mods, keys) ==
    LET head == Take(BTreeIter(keys), MaxKeys)
    IN  [i \in 1 .. 9 |->
            CASE i = 1 -> RID_KEYBD
              [] i = 2 -> mods
              [] i = 3 -> 0
              [] OTHER -> IF i - 3 <= Len(head) THEN head[i - 3] ELSE 0]

(***************************************************************************)
(* src/src/ble.rs: ble_owner_task                                          *)
(***************************************************************************)
UUID_HID_SERVICE == 6162
UUID_BAS_SERVICE == 6159
UUID_DIS_SERVICE == 6154

\* One call on the peripheral (or one reply to a responder) and how it ended.
Call(op, char, value, ok) == [op |-> op, char |-> char, value |-> value, ok |-> ok]

update_characteristic(char, value, ok) == Call("update_characteristic", char, value, ok)
start_advertising(ok) ==
    Call("start_advertising", 0, <<UUID_HID_SERVICE, UUID_BAS_SERVICE, UUID_DIS_SERVICE>>, ok)
stop_advertising(ok) == Call("stop_advertising", 0, <<>>, ok)

\* The locals of the run loop as they are declared before it.
RunLoopLocals ==
    /\ modifiers = 0
    /\ pressed = {}
    /\ input_notify = FALSE
    /\ battery_notify = FALSE
    /\ last_battery = InitialBattery

BleInit ==
    /\ pc = "new"
    /\ delay_ms = 0
    /\ advertising = FALSE
    /\ RunLoopLocals
    /\ handled = <<"none">>
    /\ calls = <<>>
    /\ polls = 0
    /\ insOrder = <<>>
    /\ history = <<>>
    /\ released = {}
    /\ radio = FALSE

CodecIdle == call = <<"none">> /\ ret = <<>>

UiInit ==
    /\ mouse_buttons = 0
    /\ cursor_last = None
    /\ wheel_px_accum = 0
    /\ hid_mod_mask = 0
    /\ pressed_usages = {}
    /\ exiting = FALSE
    /\ sent = <<>>
    /\ event = <<"none">>

\* The producers that hold a Sender of the command channel.
Producers == {"a", "b"}

\* mpsc::channel::<AppCmd>(..): an empty channel, nothing sent yet.
ChanInit ==
    /\ chan = <<>>
    /\ sends = [p \in Producers |-> 0]
    /\ received = <<>>
    /\ dropped = {}

\* The locals of the run loop of src/src/main.rs as they are declared before it;
\* no peer has subscribed and no Battery command was handled.
MainInit ==
    /\ notify = FALSE
    /\ peer_subs = {}
    /\ prev_level = None

Init == BleInit /\ CodecIdle /\ UiInit /\ ChanInit /\ MainInit

\* What every step of the task leaves alone unless it says otherwise.
KeysUnchanged == UNCHANGED <<modifiers, pressed>>
FlagsUnchanged == UNCHANGED <<input_notify, battery_notify>>
WaitUnchanged == UNCHANGED <<delay_ms, polls>>

\* A failed call that is not looked at.
AfterCall_ignored(ok, next) == next

\* `?` on a failed call returns the error from the task.
AfterCall(ok, next) == IF ok THEN next ELSE "done_err"

\* Peripheral::new(evt_tx).await?
NewPeripheral(ok) ==
    /\ pc = "new"
    /\ handled' = <<"new">>
    /\ calls' = <<Call("new", 0, <<>>, ok)>>
    /\ pc' = AfterCall(ok, "power_wait")
    /\ delay_ms' = IF ok THEN InitialDelayMs ELSE 0
    /\ UNCHANGED <<advertising, last_battery, polls>>
    /\ KeysUnchanged /\ FlagsUnchanged

\* The doubling without `.min(1000)`.
NextDelay_uncapped(d) == d * 2

\* (delay_ms * 2).min(1000)
NextDelay(d) == IF d * 2 < MaxDelayMs THEN d * 2 ELSE MaxDelayMs

\* The count of unpowered polls: the code keeps none, the model stops counting
\* at MaxPolls, so that polls = MaxPolls reads "MaxPolls polls or more".
CountPoll(n) == IF n < MaxPolls THEN n + 1 ELSE MaxPolls

\* A wait that gives up with an error at the fourth unpowered poll.
PollPower_giveup(answer) ==
    /\ pc = "power_wait"
    /\ handled' = <<"poll", answer>>
    /\ CASE answer = "powered" ->
              /\ calls' = <<Call("is_powered", 0, <<1>>, TRUE)>>
              /\ pc' = "add_hid"
              /\ delay_ms' = 0
              /\ polls' = 0
         [] answer = "unpowered" /\ polls < 3 ->
              /\ calls' = <<Call("is_powered", 0, <<0>>, TRUE),
                            Call("sleep", 0, <<delay_ms>>, TRUE)>>
              /\ pc' = "power_wait"
              /\ delay_ms' = NextDelay(delay_ms)
              /\ polls' = CountPoll(polls)
         [] OTHER ->
              /\ calls' = <<Call("is_powered", 0, <<>>, FALSE)>>
              /\ pc' = "done_err"
              /\ delay_ms' = 0
              /\ polls' = 0
    /\ UNCHANGED <<advertising, last_battery>>
    /\ KeysUnchanged /\ FlagsUnchanged

\* One turn of the power-on wait: is_powered().await?, then break, or sleep and
\* double the delay. The locals of the wait are dead once the wait is left.
PollPower(answer) ==
    /\ pc = "power_wait"
    /\ handled' = <<"poll", answer>>
    /\ CASE answer = "powered" ->
              /\ calls' = <<Call("is_powered", 0, <<1>>, TRUE)>>
              /\ pc' = "add_hid"
              /\ delay_ms' = 0
              /\ polls' = 0
         [] answer = "unpowered" ->
              /\ calls' = <<Call("is_powered", 0, <<0>>, TRUE),
                            Call("sleep", 0, <<delay_ms>>, TRUE)>>
              /\ pc' = "power_wait"
              /\ delay_ms' = NextDelay(delay_ms)
              /\ polls' = CountPoll(polls)
         [] OTHER ->
              /\ calls' = <<Call("is_powered", 0, <<>>, FALSE)>>
              /\ pc' = "done_err"
              /\ delay_ms' = 0
              /\ polls' = 0
    /\ UNCHANGED <<advertising, last_battery>>
    /\ KeysUnchanged /\ FlagsUnchanged

ServiceAt(p) ==
    CASE p = "add_hid" -> UUID_HID_SERVICE
      [] p = "add_bas" -> UUID_BAS_SERVICE
      [] OTHER -> UUID_DIS_SERVICE

AfterService(p) ==
    CASE p = "add_hid" -> "add_bas"
      [] p = "add_bas" -> "add_dis"
      [] OTHER -> "start_adv"

\* peripheral.add_service(..).await?, three times
AddService(ok) ==
    /\ pc \in {"add_hid", "add_bas", "add_dis"}
    /\ handled' = <<"add_service", ServiceAt(pc)>>
    /\ calls' = <<Call("add_service", ServiceAt(pc), <<>>, ok)>>
    /\ pc' = AfterCall(ok, AfterService(pc))
    /\ UNCHANGED <<advertising, last_battery>>
    /\ KeysUnchanged /\ FlagsUnchanged /\ WaitUnchanged

\* if !advertising { peripheral.start_advertising(..).await?; advertising = true; }
FirstAdvertise(ok) ==
    /\ pc = "start_adv"
    /\ handled' = <<"advertise">>
    /\ calls' = <<start_advertising(ok)>>
    /\ pc' = AfterCall(ok, "run")
    /\ advertising' = ok
    /\ UNCHANGED last_battery
    /\ KeysUnchanged /\ FlagsUnchanged /\ WaitUnchanged

(***************************************************************************)
(* The run loop: select! over evt_rx.recv() and cmd_rx.recv(). Each action *)
(* is one arm, handled to completion.                                      *)
(***************************************************************************)
\* A StateUpdate branch that does not look at the advertising flag.
StateUpdate_always(is_powered, ok) ==
    /\ pc = "run"
    /\ handled' = <<"StateUpdate", is_powered>>
    /\ IF is_powered
       THEN /\ calls' = <<start_advertising(ok)>>
            /\ advertising' = (advertising \/ ok)
       ELSE /\ calls' = <<stop_advertising(ok)>>
            /\ advertising' = FALSE
    /\ UNCHANGED <<pc, last_battery>>
    /\ KeysUnchanged /\ FlagsUnchanged /\ WaitUnchanged

\* A StateUpdate branch that sets the flag whether or not start_advertising failed.
StateUpdate_latched(is_powered, ok) ==
    /\ pc = "run"
    /\ handled' = <<"StateUpdate", is_powered>>
    /\ IF is_powered
       THEN IF ~advertising
            THEN /\ calls' = <<start_advertising(ok)>>
                 /\ advertising' = TRUE
            ELSE /\ ok
                 /\ calls' = <<>>
                 /\ UNCHANGED advertising
       ELSE IF advertising
            THEN /\ calls' = <<stop_advertising(ok)>>
                 /\ advertising' = FALSE
            ELSE /\ ok
                 /\ calls' = <<>>
                 /\ UNCHANGED advertising
    /\ UNCHANGED <<pc, last_battery>>
    /\ KeysUnchanged /\ FlagsUnchanged /\ WaitUnchanged

\* A StateUpdate branch that stops the advertising and leaves the flag set.
StateUpdate_flagkept(is_powered, ok) ==
    /\ pc = "run"
    /\ handled' = <<"StateUpdate", is_powered>>
    /\ IF is_powered
       THEN IF ~advertising
            THEN /\ calls' = <<start_advertising(ok)>>
                 /\ advertising' = ok
            ELSE /\ ok
                 /\ calls' = <<>>
                 /\ UNCHANGED advertising
       ELSE IF advertising
            THEN /\ calls' = <<stop_advertising(ok)>>
                 /\ UNCHANGED advertising
            ELSE /\ ok
                 /\ calls' = <<>>
                 /\ UNCHANGED advertising
    /\ UNCHANGED <<pc, last_battery>>
    /\ KeysUnchanged /\ FlagsUnchanged /\ WaitUnchanged

\* Some(PeripheralEvent::StateUpdate{ is_powered })
StateUpdate(is_powered, ok) ==
    /\ pc = "run"
    /\ handled' = <<"StateUpdate", is_powered>>
    /\ IF is_powered
       THEN IF ~advertising
            THEN /\ calls' = <<start_advertising(ok)>>
                 /\ advertising' = ok
            ELSE /\ ok
                 /\ calls' = <<>>
                 /\ UNCHANGED advertising
       ELSE IF advertising
            THEN /\ calls' = <<stop_advertising(ok)>>
                 /\ advertising' = FALSE
            ELSE /\ ok
                 /\ calls' = <<>>
                 /\ UNCHANGED advertising
    /\ UNCHANGED <<pc, last_battery>>
    /\ KeysUnchanged /\ FlagsUnchanged /\ WaitUnchanged

\* A subscription branch that sends the current keyboard report to a peer that
\* subscribes to the input characteristic.
SubscriptionUpdate_replay(char, subscribed) ==
    /\ pc = "run"
    /\ handled' = <<"SubscriptionUpdate", char, subscribed>>
    /\ calls' = IF char = UUID_HID_REPORT /\ subscribed
                THEN <<update_characteristic(UUID_HID_REPORT,
                           build_keyboard_report(modifiers, pressed), TRUE)>>
                ELSE <<>>
    /\ IF char = UUID_HID_REPORT
       THEN input_notify' = subscribed /\ UNCHANGED battery_notify
       ELSE IF char = UUID_BATTERY_LEVEL
            THEN battery_notify' = subscribed /\ UNCHANGED input_notify
            ELSE FlagsUnchanged
    /\ UNCHANGED <<pc, advertising, last_battery>>
    /\ KeysUnchanged /\ WaitUnchanged

\* A subscription branch with one flag for the input-report and the battery-level
\* characteristic.
SubscriptionUpdate_shared(char, subscribed) ==
    /\ pc = "run"
    /\ handled' = <<"SubscriptionUpdate", char, subscribed>>
    /\ calls' = <<>>
    /\ IF char \in {UUID_HID_REPORT, UUID_BATTERY_LEVEL}
       THEN input_notify' = subscribed /\ battery_notify' = subscribed
       ELSE FlagsUnchanged
    /\ UNCHANGED <<pc, advertising, last_battery>>
    /\ KeysUnchanged /\ WaitUnchanged

\* Some(PeripheralEvent::CharacteristicSubscriptionUpdate { request, subscribed })
SubscriptionUpdate(char, subscribed) ==
    /\ pc = "run"
    /\ handled' = <<"SubscriptionUpdate", char, subscribed>>
    /\ calls' = <<>>
    /\ IF char = UUID_HID_REPORT
       THEN input_notify' = subscribed /\ UNCHANGED battery_notify
       ELSE IF char = UUID_BATTERY_LEVEL
            THEN battery_notify' = subscribed /\ UNCHANGED input_notify
            ELSE FlagsUnchanged
    /\ UNCHANGED <<pc, advertising, last_battery>>
    /\ KeysUnchanged /\ WaitUnchanged

\* A read branch that answers every characteristic with the empty value.
ReadRequest_fixed(char) ==
    /\ pc = "run"
    /\ handled' = <<"ReadRequest", char>>
    /\ calls' = <<Call("read_response", char, <<>>, TRUE)>>
    /\ UNCHANGED <<pc, advertising, last_battery>>
    /\ KeysUnchanged /\ FlagsUnchanged /\ WaitUnchanged

\* Some(PeripheralEvent::ReadRequest{ request, offset, responder })
ReadRequest(char) ==
    /\ pc = "run"
    /\ handled' = <<"ReadRequest", char>>
    /\ calls' = <<Call("read_response", char,
                       IF char = UUID_BATTERY_LEVEL THEN <<last_battery>> ELSE <<>>,
                       TRUE)>>
    /\ UNCHANGED <<pc, advertising, last_battery>>
    /\ KeysUnchanged /\ FlagsUnchanged /\ WaitUnchanged

\* Some(PeripheralEvent::WriteRequest{ request, offset, value, responder })
WriteRequest(char) ==
    /\ pc = "run"
    /\ handled' = <<"WriteRequest", char>>
    /\ calls' = <<Call("write_response", char, <<>>, TRUE)>>
    /\ UNCHANGED <<pc, advertising, last_battery>>
    /\ KeysUnchanged /\ FlagsUnchanged /\ WaitUnchanged

\* A return from the loop that leaves the advertising as it is.
LeaveLoop_silent(why, ok) ==
    /\ pc = "run"
    /\ handled' = <<why>>
    /\ calls' = <<>>
    /\ pc' = AfterCall(ok, "done_ok")
    /\ UNCHANGED <<advertising, last_battery>>
    /\ KeysUnchanged /\ FlagsUnchanged /\ WaitUnchanged

\* The code after the loop: peripheral.stop_advertising().await?; Ok(())
LeaveLoop(why, ok) ==
    /\ pc = "run"
    /\ handled' = <<why>>
    /\ calls' = <<stop_advertising(ok)>>
    /\ pc' = AfterCall(ok, "done_ok")
    /\ UNCHANGED <<advertising, last_battery>>
    /\ KeysUnchanged /\ FlagsUnchanged /\ WaitUnchanged

\* evt_rx.recv() gave None => break
EventsClosed(ok) == LeaveLoop("EventsClosed", ok)

\* cmd_rx.recv() gave None => break
CommandsClosed(ok) == LeaveLoop("CommandsClosed", ok)

\* An Exit command that falls through to the catch-all arm.
ExitCmd_ignored(ok) ==
    /\ pc = "run"
    /\ ok
    /\ handled' = <<"Exit">>
    /\ calls' = <<>>
    /\ UNCHANGED <<pc, advertising, last_battery>>
    /\ KeysUnchanged /\ FlagsUnchanged /\ WaitUnchanged

\* Some(AppCmd::Exit) => break
ExitCmd(ok) == LeaveLoop("Exit", ok)

\* MouseCmd without the match guard `if input_notify`.
MouseCmd_unguarded(m, ok) ==
    /\ pc = "run"
    /\ handled' = <<"Mouse", m>>
    /\ calls' = <<update_characteristic(UUID_HID_REPORT,
                      build_mouse_report(m[1], m[2], m[3], m[4]), ok)>>
    /\ pc' = AfterCall(ok, "run")
    /\ UNCHANGED <<advertising, last_battery>>
    /\ KeysUnchanged /\ FlagsUnchanged /\ WaitUnchanged

\* Some(AppCmd::Mouse { buttons, dx, dy, wheel }) if input_notify, else Some(_) => {}
MouseCmd(m, ok) ==
    /\ pc = "run"
    /\ handled' = <<"Mouse", m>>
    /\ IF input_notify
       THEN /\ calls' = <<update_characteristic(UUID_HID_REPORT,
                              build_mouse_report(m[1], m[2], m[3], m[4]), ok)>>
            /\ pc' = AfterCall(ok, "run")
       ELSE /\ ok
            /\ calls' = <<>>
            /\ UNCHANGED pc
    /\ UNCHANGED <<advertising, last_battery>>
    /\ KeysUnchanged /\ FlagsUnchanged /\ WaitUnchanged

\* The KeyDown arm without the eviction loop.
EvictWhileOver_never(s) == s

\* An eviction loop that removes the last usage of the iteration.
RECURSIVE EvictWhileOver_largest(_)
EvictWhileOver_largest(s) ==
    IF Cardinality(s) > MaxKeys
    THEN EvictWhileOver_largest(s \ {BTreeIter(s)[Cardinality(s)]})
    ELSE s

\* while pressed.len() > 6 { let first = *pressed.iter().next().unwrap(); pressed.remove(&first); }
RECURSIVE EvictWhileOver(_)
EvictWhileOver(s) ==
    IF Cardinality(s) > MaxKeys
    THEN EvictWhileOver(s \ {BTreeIter(s)[1]})
    ELSE s

\* A KeyDown arm that releases an ordinary usage that is already pressed.
KeyDownState_toggle(mods, keys, usage) ==
    LET m == keyboard_usage_to_modifier(usage)
    IN  IF m # None
        THEN <<BitOr(mods, m[1]), keys>>
        ELSE IF usage \in keys
             THEN <<mods, keys \ {usage}>>
             ELSE <<mods, EvictWhileOver(keys \cup {usage})>>

\* The KeyDown arm's change of (modifiers, pressed).
KeyDownState(mods, keys, usage) ==
    LET m == keyboard_usage_to_modifier(usage)
    IN  IF m # None
        THEN <<BitOr(mods, m[1]), keys>>
        ELSE <<mods, EvictWhileOver(keys \cup {usage})>>

\* A KeyUp arm that leaves an ordinary usage in the set.
KeyUpState_sticky(mods, keys, usage) ==
    LET m == keyboard_usage_to_modifier(usage)
    IN  IF m # None
        THEN <<BitAndNot(mods, m[1]), keys>>
        ELSE <<mods, keys>>

\* A KeyUp arm that leaves the bit of a modifier usage set.
KeyUpState_heldmod(mods, keys, usage) ==
    LET m == keyboard_usage_to_modifier(usage)
    IN  IF m # None
        THEN <<mods, keys>>
        ELSE <<mods, keys \ {usage}>>

\* The KeyUp arm's change of (modifiers, pressed).
KeyUpState(mods, keys, usage) ==
    LET m == keyboard_usage_to_modifier(usage)
    IN  IF m # None
        THEN <<BitAndNot(mods, m[1]), keys>>
        ELSE <<mods, keys \ {usage}>>

\* A key arm that reports only when the key state changed.
KeyArm_quiet(kind, usage, after, ok) ==
    /\ pc = "run"
    /\ handled' = <<kind, usage>>
    /\ IF input_notify /\ after # <<modifiers, pressed>>
       THEN /\ modifiers' = after[1]
            /\ pressed' = after[2]
            /\ calls' = <<update_characteristic(UUID_HID_REPORT,
                              build_keyboard_report(after[1], after[2]), ok)>>
            /\ pc' = AfterCall(ok, "run")
       ELSE /\ ok
            /\ calls' = <<>>
            /\ UNCHANGED <<pc, modifiers, pressed>>
    /\ UNCHANGED <<advertising, last_battery>>
    /\ FlagsUnchanged /\ WaitUnchanged

\* A key arm that follows the keys while the peer is unsubscribed and reports
\* only while it is subscribed.
KeyArm_tracking(kind, usage, after, ok) ==
    /\ pc = "run"
    /\ handled' = <<kind, usage>>
    /\ modifiers' = after[1]
    /\ pressed' = after[2]
    /\ IF input_notify
       THEN /\ calls' = <<update_characteristic(UUID_HID_REPORT,
                              build_keyboard_report(after[1], after[2]), ok)>>
            /\ pc' = AfterCall(ok, "run")
       ELSE /\ ok
            /\ calls' = <<>>
            /\ UNCHANGED pc
    /\ UNCHANGED <<advertising, last_battery>>
    /\ FlagsUnchanged /\ WaitUnchanged

\* A key arm: the guard `if input_notify`, the state change, one report.
KeyArm(kind, usage, after, ok) ==
    /\ pc = "run"
    /\ handled' = <<kind, usage>>
    /\ IF input_notify
       THEN /\ modifiers' = after[1]
            /\ pressed' = after[2]
            /\ calls' = <<update_characteristic(UUID_HID_REPORT,
                              build_keyboard_report(after[1], after[2]), ok)>>
            /\ pc' = AfterCall(ok, "run")
       ELSE /\ ok
            /\ calls' = <<>>
            /\ UNCHANGED <<pc, modifiers, pressed>>
    /\ UNCHANGED <<advertising, last_battery>>
    /\ FlagsUnchanged /\ WaitUnchanged

\* Some(AppCmd::KeyDown(usage)) if input_notify, else Some(_) => {}
KeyDownCmd(usage, ok) ==
    KeyArm("KeyDown", usage, KeyDownState(modifiers, pressed, usage), ok)

\* Some(AppCmd::KeyUp(usage)) if input_notify, else Some(_) => {}
KeyUpCmd(usage, ok) ==
    KeyArm("KeyUp", usage, KeyUpState(modifiers, pressed, usage), ok)

\* A Battery arm that remembers a level only when it transmits it.
BatteryCmd_transmitted(level, ok) ==
    /\ pc = "run"
    /\ handled' = <<"Battery", level>>
    /\ IF level # last_battery /\ battery_notify
       THEN /\ last_battery' = level
            /\ calls' = <<update_characteristic(UUID_BATTERY_LEVEL, <<level>>, ok)>>
            /\ pc' = AfterCall(ok, "run")
       ELSE /\ ok
            /\ calls' = <<>>
            /\ UNCHANGED <<pc, last_battery>>
    /\ UNCHANGED advertising
    /\ KeysUnchanged /\ FlagsUnchanged /\ WaitUnchanged

\* Some(AppCmd::Battery(level))
BatteryCmd(level, ok) ==
    /\ pc = "run"
    /\ handled' = <<"Battery", level>>
    /\ IF level # last_battery
       THEN /\ last_battery' = level
            /\ IF battery_notify
               THEN /\ calls' = <<update_characteristic(UUID_BATTERY_LEVEL, <<level>>, ok)>>
                    /\ pc' = AfterCall(ok, "run")
               ELSE /\ ok
                    /\ calls' = <<>>
                    /\ UNCHANGED pc
       ELSE /\ ok
            /\ calls' = <<>>
            /\ UNCHANGED <<pc, last_battery>>
    /\ UNCHANGED advertising
    /\ KeysUnchanged /\ FlagsUnchanged /\ WaitUnchanged

BleFrame == UNCHANGED <<insOrder, history, released, radio, codecVars, uiVars,
                        chanVars, mainVars>>

Next ==
    \/ \E ok \in BOOLEAN : NewPeripheral(ok) /\ BleFrame
    \/ \E answer \in {"powered", "unpowered", "error"} : PollPower(answer) /\ BleFrame
    \/ \E ok \in BOOLEAN : AddService(ok) /\ BleFrame
    \/ \E ok \in BOOLEAN : FirstAdvertise(ok) /\ BleFrame
    \/ \E p \in BOOLEAN, ok \in BOOLEAN : StateUpdate(p, ok) /\ BleFrame
    \/ \E c \in Characteristics, s \in BOOLEAN : SubscriptionUpdate(c, s) /\ BleFrame
    \/ \E c \in Characteristics : ReadRequest(c) /\ BleFrame
    \/ \E c \in Characteristics : WriteRequest(c) /\ BleFrame
    \/ \E ok \in BOOLEAN : EventsClosed(ok) /\ BleFrame
    \/ \E m \in MouseSamples, ok \in BOOLEAN : MouseCmd(m, ok) /\ BleFrame
    \/ \E u \in Usages, ok \in BOOLEAN : KeyDownCmd(u, ok) /\ BleFrame
    \/ \E u \in Usages, ok \in BOOLEAN : KeyUpCmd(u, ok) /\ BleFrame
    \/ \E l \in BatteryLevels, ok \in BOOLEAN : BatteryCmd(l, ok) /\ BleFrame
    \/ \E ok \in BOOLEAN : ExitCmd(ok) /\ BleFrame
    \/ \E ok \in BOOLEAN : CommandsClosed(ok) /\ BleFrame

Spec == Init /\ [][Next]_vars

(***************************************************************************)
(* SpecKeys: the run loop from its entry, fed key commands over a set of   *)
(* usages larger than the pressed set, and subscription changes of the     *)
(* input-report characteristic.                                            *)
(***************************************************************************)
\* The state in which ble_owner_task enters its run loop.
RunEntry ==
    /\ pc = "run"
    /\ delay_ms = 0
    /\ advertising = TRUE
    /\ RunLoopLocals
    /\ handled = <<"advertise">>
    /\ calls = <<start_advertising(TRUE)>>
    /\ polls = 0
    /\ insOrder = <<>>
    /\ history = <<>>
    /\ released = {}
    /\ radio = TRUE

InitKeys == RunEntry /\ CodecIdle /\ UiInit /\ ChanInit /\ MainInit

NextKeys ==
    \/ \E s \in BOOLEAN : SubscriptionUpdate(UUID_HID_REPORT, s) /\ BleFrame
    \/ \E u \in KeyUsages, ok \in BOOLEAN : KeyDownCmd(u, ok) /\ BleFrame
    \/ \E u \in KeyUsages, ok \in BOOLEAN : KeyUpCmd(u, ok) /\ BleFrame

SpecKeys == InitKeys /\ [][NextKeys]_vars

(***************************************************************************)
(* SpecFifo: the same key handling over the ordinary usages, with insOrder *)
(* following the pressed set: a usage enters at the tail when it is        *)
(* inserted into the set and leaves when it is removed from it.            *)
(***************************************************************************)
InSet(seq, s) == SelectSeq(seq, LAMBDA x : x \in s)

FollowPressed(usage) ==
    insOrder' = IF usage \in pressed' /\ usage \notin pressed
                THEN Append(InSet(insOrder, pressed'), usage)
                ELSE InSet(insOrder, pressed')

FifoFrame == UNCHANGED <<history, released, radio, codecVars, uiVars, chanVars,
                         mainVars>>

NextFifo ==
    \/ \E s \in BOOLEAN :
          SubscriptionUpdate(UUID_HID_REPORT, s) /\ UNCHANGED insOrder /\ FifoFrame
    \/ \E u \in KeyOrdinary : KeyDownCmd(u, TRUE) /\ FollowPressed(u) /\ FifoFrame
    \/ \E u \in KeyOrdinary : KeyUpCmd(u, TRUE) /\ FollowPressed(u) /\ FifoFrame

SpecFifo == InitKeys /\ [][NextFifo]_vars

(***************************************************************************)
(* SpecMods: the run loop from its entry, fed key commands over all eight  *)
(* modifier usages, the usages next to them and one letter.                *)
(***************************************************************************)
NextMods ==
    \/ \E s \in BOOLEAN : SubscriptionUpdate(UUID_HID_REPORT, s) /\ BleFrame
    \/ \E u \in ModsUsages, ok \in BOOLEAN : KeyDownCmd(u, ok) /\ BleFrame
    \/ \E u \in ModsUsages, ok \in BOOLEAN : KeyUpCmd(u, ok) /\ BleFrame

SpecMods == InitKeys /\ [][NextMods]_vars

(***************************************************************************)
(* Properties of the arbitrator.                                           *)
(***************************************************************************)
\* The update_characteristic calls on `char` among the calls `cs`.
UpdatesOn(cs, char) ==
    {i \in 1 .. Len(cs) : cs[i].op = "update_characteristic" /\ cs[i].char = char}

InputKinds == {"Mouse", "KeyDown", "KeyUp"}

\* C1: a step of ble_owner_task calls update_characteristic on the input-report
\* characteristic only if input_notify was true when the step began, and on the
\* battery-level characteristic only if battery_notify was true when it began.
C1_NoUpdateWhileUnsubscribed ==
    [][/\ UpdatesOn(calls', UUID_HID_REPORT) # {} => input_notify
       /\ UpdatesOn(calls', UUID_BATTERY_LEVEL) # {} => battery_notify]_vars

\* A key command was dropped while the input characteristic was unsubscribed and
\* the battery characteristic was subscribed.
C1_Witness ==
    /\ pc = "run"
    /\ handled[1] = "KeyDown"
    /\ ~input_notify
    /\ battery_notify
    /\ calls = <<>>

\* C2: the step that handles a Mouse, KeyDown or KeyUp command makes exactly one
\* update_characteristic call, on the input-report characteristic and carrying
\* the report of that command, if input_notify is true, and no call at all if it
\* is false; no other step calls update_characteristic on that characteristic.
\* Steps are handled one at a time, so the calls are in the order of the commands.
C2_OneReportPerCommand ==
    IF handled[1] \in InputKinds
    THEN IF input_notify
         THEN /\ Len(calls) = 1
              /\ calls[1].op = "update_characteristic"
              /\ calls[1].char = UUID_HID_REPORT
              /\ IF handled[1] = "Mouse"
                 THEN calls[1].value = <<RID_MOUSE, handled[2][1], handled[2][2] % 256,
                                         handled[2][3] % 256, handled[2][4] % 256>>
                 ELSE /\ calls[1].value[1] = RID_KEYBD
                      /\ calls[1].value[2] = modifiers
                      /\ {calls[1].value[i] : i \in 4 .. 9} \ {0} = pressed
         ELSE calls = <<>>
    ELSE UpdatesOn(calls, UUID_HID_REPORT) = {}

\* A KeyUp that changed nothing was still reported, once.
C2_Witness ==
    /\ handled = <<"KeyUp", 5>>
    /\ input_notify
    /\ 5 \notin pressed
    /\ pressed = {4}
    /\ Len(calls) = 1
    /\ calls[1].ok

\* C3: a KeyDown of an ordinary usage that is not pressed, handled while six
\* ordinary usages are pressed, removes the usage that was inserted earliest and
\* keeps the other five and the new one.
C3_FifoEviction ==
    [][(/\ handled'[1] = "KeyDown"
        /\ input_notify
        /\ handled'[2] \notin pressed
        /\ Cardinality(pressed) = MaxKeys)
       => pressed' = (pressed \cup {handled'[2]}) \ {Head(insOrder)}]_vars

\* C4: the pressed set never holds more than 6 usages.
C4_PressedAtMostSix == Cardinality(pressed) <= MaxKeys

\* A seventh key was pressed and a usage was evicted: the key command was handled
\* while subscribed and its usage is not in the set.
C4_Witness ==
    /\ handled[1] = "KeyDown"
    /\ handled[2] \in KeyOrdinary
    /\ input_notify
    /\ Len(calls) = 1
    /\ Cardinality(pressed) = MaxKeys
    /\ handled[2] \notin pressed

\* C5: no modifier usage is ever in the pressed set, and a step that handles a
\* KeyDown or KeyUp of a usage outside 0xE0..0xE7 leaves the modifier mask as it was.
C5_ModifiersApart ==
    /\ [](pressed \cap ModifierUsages = {})
    /\ [][(handled'[1] \in {"KeyDown", "KeyUp"} /\ handled'[2] \notin ModifierUsages)
          => modifiers' = modifiers]_vars

\* All eight modifiers are down, then the usage after the last modifier was pressed.
C5_Witness ==
    /\ handled = <<"KeyDown", 232>>
    /\ input_notify
    /\ modifiers = 255
    /\ pressed = {4, 223, 232}

(***************************************************************************)
(* SpecCodec: one call of a function of src/src/hid.rs. Init draws the     *)
(* function and its arguments, the action applies the function.            *)
(***************************************************************************)
U8 == 0 .. 255
I8 == -128 .. 127
MaskSamples == {0, 18, 255}
CodecKeys == {0, 255} \cup (4 .. (3 + NumCodecKeys))
ButtonSamples == {0, 7, 255}
DeltaSamples == {-128, -1, 0, 1, 5, 127}

CodecCalls ==
    {<<"keyboard_usage_to_modifier", u>> : u \in U8}
    \cup {<<"build_keyboard_report", m, k>> : m \in MaskSamples, k \in SUBSET CodecKeys}
    \cup {<<"build_mouse_report", b, dx, dy, w>> :
             b \in ButtonSamples, dx \in I8, dy \in DeltaSamples, w \in DeltaSamples}

InitCodec == BleInit /\ UiInit /\ ChanInit /\ MainInit /\ call \in CodecCalls /\ ret = <<>>

CodecFrame == UNCHANGED <<bleVars, uiVars, chanVars, mainVars, call>>

ApplyModifier ==
    /\ call[1] = "keyboard_usage_to_modifier"
    /\ ret = <<>>
    /\ ret' = <<keyboard_usage_to_modifier(call[2])>>
    /\ CodecFrame

ApplyKeyboardReport ==
    /\ call[1] = "build_keyboard_report"
    /\ ret = <<>>
    /\ ret' = <<build_keyboard_report(call[2], call[3])>>
    /\ CodecFrame

ApplyMouseReport ==
    /\ call[1] = "build_mouse_report"
    /\ ret = <<>>
    /\ ret' = <<build_mouse_report(call[2], call[3], call[4], call[5])>>
    /\ CodecFrame

NextCodec == ApplyModifier \/ ApplyKeyboardReport \/ ApplyMouseReport

SpecCodec == InitCodec /\ [][NextCodec]_vars

Returned(fn) == call[1] = fn /\ ret # <<>>

\* C6: keyboard_usage_to_modifier returns Some(1 << (usage - 0xE0)) for the usages
\* 0xE0..0xE7 and None for every other usage 0..255.
C6_ModifierTable ==
    Returned("keyboard_usage_to_modifier") =>
        IF call[2] \in 224 .. 231
        THEN ret[1] = <<2 ^ (call[2] - 224)>>
        ELSE ret[1] = <<>>

\* The function was applied to the last modifier usage, 0xE7 (RGUI).
C6_Witness ==
    /\ call = <<"keyboard_usage_to_modifier", 231>>
    /\ ret = <<<<128>>>>

\* C7: for a set of at most 6 usages, build_keyboard_report returns 9 bytes:
\* 0x02, the mask, 0x00, then the usages of the set in strictly ascending order,
\* then 0x00 up to the ninth byte.
C7_KeyboardReportLayout ==
    (Returned("build_keyboard_report") /\ Cardinality(call[3]) <= 6) =>
        LET r == ret[1]
            n == Cardinality(call[3])
        IN  /\ DOMAIN r = 1 .. 9
            /\ r[1] = 2
            /\ r[2] = call[2]
            /\ r[3] = 0
            /\ {r[3 + i] : i \in 1 .. n} = call[3]
            /\ \A i \in 1 .. n - 1 : r[3 + i] < r[3 + i + 1]
            /\ \A i \in n + 1 .. 6 : r[3 + i] = 0

\* The function was applied to a set of three usages and padded the report.
C7_Witness ==
    /\ call = <<"build_keyboard_report", 18, {4, 6, 255}>>
    /\ ret = <<<<2, 18, 0, 4, 6, 255, 0, 0, 0>>>>

\* C8: for a set of more than 6 usages, build_keyboard_report returns 9 bytes
\* whose key bytes are six usages of the set in strictly ascending order, each
\* smaller than every usage of the set that is left out.
C8_KeyboardReportOverflow ==
    (Returned("build_keyboard_report") /\ Cardinality(call[3]) > 6) =>
        LET r == ret[1]
            kept == {r[i] : i \in 4 .. 9}
        IN  /\ DOMAIN r = 1 .. 9
            /\ r[1] = 2
            /\ r[2] = call[2]
            /\ r[3] = 0
            /\ \A i \in 4 .. 8 : r[i] < r[i + 1]
            /\ kept \subseteq call[3]
            /\ \A k \in call[3] \ kept : \A s \in kept : s < k

\* The function was applied to the seven usages 0x04..0x0A and left out 0x0A.
C8_Witness ==
    /\ call = <<"build_keyboard_report", 18, 4 .. 10>>
    /\ ret = <<<<2, 18, 0, 4, 5, 6, 7, 8, 9>>>>

\* A byte read as a signed byte.
SignedByte(b) == IF b >= 128 THEN b - 256 ELSE b

\* C9: build_mouse_report returns the 5 bytes 0x01, buttons, dx mod 256,
\* dy mod 256, wheel mod 256; reading bytes 2..4 as signed bytes gives dx, dy, wheel.
C9_MouseReportLayout ==
    Returned("build_mouse_report") =>
        LET r == ret[1]
        IN  /\ DOMAIN r = 1 .. 5
            /\ r[1] = 1
            /\ r[2] = call[2]
            /\ \A i \in 3 .. 5 : r[i] \in U8 /\ r[i] = call[i] % 256
            /\ \A i \in 3 .. 5 : SignedByte(r[i]) = call[i]

\* The function was applied to dx = -10, dy = 5, wheel = 1 and gave 246, 5, 1.
C9_Witness ==
    /\ call = <<"build_mouse_report", 7, -10, 5, 1>>
    /\ ret = <<<<1, 7, 246, 5, 1>>>>

(***************************************************************************)
(* src/src/ui.rs: App, the window-event producer of commands. Cursor       *)
(* positions and line deltas are f64/f32 values; the model counts them in  *)
(* halves, so that the fraction a cast drops is there to be dropped.       *)
(***************************************************************************)
PX_PER_NOTCH == 120

Abs(v) == IF v < 0 THEN -v ELSE v

\* v.clamp(i8::MIN as f64, i8::MAX as f64), v in halves
ClampF64(h) == IF h < -256 THEN -256 ELSE IF h > 254 THEN 254 ELSE h

\* `v as i8` of an f64 in range, v in halves: the fraction is dropped
TruncToI8(h) == IF h >= 0 THEN h \div 2 ELSE -((-h) \div 2)

\* wheel.clamp(i8::MIN as i32, i8::MAX as i32) as i8
ClampI32(w) == IF w < -128 THEN -128 ELSE IF w > 127 THEN 127 ELSE w

\* The command App::send_mouse passes to App::send; dx and dy in halves.
send_mouse(dx, dy, wheel) ==
    <<"Mouse", mouse_buttons', TruncToI8(ClampF64(dx)), TruncToI8(ClampF64(dy)),
      ClampI32(wheel)>>

\* A button table with a fourth button.
ButtonBit_back(button) ==
    CASE button = "Left" -> Some(0)
      [] button = "Middle" -> Some(1)
      [] button = "Right" -> Some(2)
      [] OTHER -> Some(3)

\* The bit of a button in set_button, None for a button it ignores.
ButtonBit(button) ==
    CASE button = "Left" -> Some(0)
      [] button = "Middle" -> Some(1)
      [] button = "Right" -> Some(2)
      [] OTHER -> None

set_button(button, isPressed) ==
    LET bit == ButtonBit(button)
    IN  IF bit = None
        THEN mouse_buttons
        ELSE IF isPressed
             THEN BitOr(mouse_buttons, 2 ^ bit[1])
             ELSE BitAndNot(mouse_buttons, 2 ^ bit[1])

\* y.round() of an f32 counted in halves: half-way cases away from zero
RoundF32(h) == IF h >= 0 THEN (h + 1) \div 2 ELSE -((1 - h) \div 2)

\* while self.wheel_px_accum.abs() >= PX_PER_NOTCH { .. }: <<accum, notches>>
RECURSIVE WheelLoop(_, _)
WheelLoop(accum, notches) ==
    IF Abs(accum) >= PX_PER_NOTCH
    THEN IF accum > 0
         THEN WheelLoop(accum - PX_PER_NOTCH, notches + 1)
         ELSE WheelLoop(accum + PX_PER_NOTCH, notches - 1)
    ELSE <<accum, notches>>

Buttons == {"Left", "Middle", "Right", "Back"}
XSamples == {0, 21, 277, 700}
YSamples == {0, 255}
LineSamples == {-400, -3, 1, 300}
PixelSamples == {-250, -50, 70, 120}

UiFrame == UNCHANGED <<bleVars, codecVars, chanVars, mainVars>>
UiKeysUnchanged == UNCHANGED <<hid_mod_mask, pressed_usages>>

\* WindowEvent::CloseRequested | WindowEvent::Destroyed. event_loop.exit() ends
\* the event loop: no window event is delivered after it.
CloseRequested ==
    /\ ~exiting
    /\ event' = <<"CloseRequested">>
    /\ exiting' = TRUE
    /\ sent' = <<>>
    /\ UNCHANGED <<mouse_buttons, cursor_last, wheel_px_accum>>
    /\ UiKeysUnchanged /\ UiFrame

\* WindowEvent::MouseInput { state, button, .. }
MouseInput(button, isPressed) ==
    /\ ~exiting
    /\ event' = <<"MouseInput", button, isPressed>>
    /\ mouse_buttons' = set_button(button, isPressed)
    /\ sent' = <<send_mouse(0, 0, 0)>>
    /\ UNCHANGED <<cursor_last, wheel_px_accum, exiting>>
    /\ UiKeysUnchanged /\ UiFrame

\* WindowEvent::CursorEntered { .. } | WindowEvent::CursorLeft { .. }
CursorEnteredOrLeft ==
    /\ ~exiting
    /\ event' = <<"CursorEnteredOrLeft">>
    /\ cursor_last' = None
    /\ sent' = <<>>
    /\ UNCHANGED <<mouse_buttons, wheel_px_accum, exiting>>
    /\ UiKeysUnchanged /\ UiFrame

\* WindowEvent::CursorMoved { position, .. }
CursorMoved(x, y) ==
    /\ ~exiting
    /\ event' = <<"CursorMoved", x, y>>
    /\ cursor_last' = Some(<<x, y>>)
    /\ UNCHANGED mouse_buttons
    /\ sent' = IF cursor_last # None
               THEN <<send_mouse(x - cursor_last[1][1], y - cursor_last[1][2], 0)>>
               ELSE <<send_mouse(0, 0, 0)>>
    /\ UNCHANGED <<wheel_px_accum, exiting>>
    /\ UiKeysUnchanged /\ UiFrame

\* WindowEvent::MouseWheel { delta: MouseScrollDelta::LineDelta(_, y), .. }
MouseWheelLine(y) ==
    LET notches == RoundF32(y)
    IN  /\ ~exiting
        /\ event' = <<"MouseWheel", "LineDelta", y>>
        /\ UNCHANGED mouse_buttons
        /\ sent' = IF notches # 0 THEN <<send_mouse(0, 0, notches)>> ELSE <<>>
        /\ UNCHANGED <<cursor_last, wheel_px_accum, exiting>>
        /\ UiKeysUnchanged /\ UiFrame

\* WindowEvent::MouseWheel { delta: MouseScrollDelta::PixelDelta(p), .. }
MouseWheelPixel(py) ==
    LET after == WheelLoop(wheel_px_accum + py, 0)
    IN  /\ ~exiting
        /\ event' = <<"MouseWheel", "PixelDelta", py>>
        /\ wheel_px_accum' = after[1]
        /\ UNCHANGED mouse_buttons
        /\ sent' = IF after[2] # 0 THEN <<send_mouse(0, 0, after[2])>> ELSE <<>>
        /\ UNCHANGED <<cursor_last, exiting>>
        /\ UiKeysUnchanged /\ UiFrame

InitUi == BleInit /\ CodecIdle /\ UiInit /\ ChanInit /\ MainInit

NextUi ==
    \/ CloseRequested
    \/ \E b \in Buttons, d \in BOOLEAN : MouseInput(b, d)
    \/ CursorEnteredOrLeft
    \/ \E x \in XSamples, y \in YSamples : CursorMoved(x, y)
    \/ \E y \in LineSamples : MouseWheelLine(y)
    \/ \E py \in PixelSamples : MouseWheelPixel(py)

SpecUi == InitUi /\ [][NextUi]_vars

\* C10: every Mouse command App::send_mouse produces carries dx, dy and wheel
\* in -127..127.
C10_MouseDeltasAboveMinus128 ==
    \A i \in 1 .. Len(sent) :
        sent[i][1] = "Mouse" =>
            /\ sent[i][3] \in -127 .. 127
            /\ sent[i][4] \in -127 .. 127
            /\ sent[i][5] \in -127 .. 127

(***************************************************************************)
(* SpecBattery and SpecScript: the run loop from its entry, with history   *)
(* remembering each step that was handled: the event or command, the calls *)
(* the step made, and the subscription flags the step left.                *)
(***************************************************************************)
Follow ==
    /\ Len(history) < MaxHistory
    /\ history' = Append(history, [handled |-> handled',
                                   calls |-> calls',
                                   input_notify |-> input_notify',
                                   battery_notify |-> battery_notify'])

HistFrame == UNCHANGED <<insOrder, released, radio, codecVars, uiVars, chanVars,
                         mainVars>>

\* Battery commands and subscription changes of the battery-level characteristic.
NextBattery ==
    \/ \E s \in BOOLEAN : SubscriptionUpdate(UUID_BATTERY_LEVEL, s) /\ Follow /\ HistFrame
    \/ \E l \in BatteryLevels, ok \in BOOLEAN : BatteryCmd(l, ok) /\ Follow /\ HistFrame

SpecBattery == InitKeys /\ [][NextBattery]_vars

\* Key commands for one letter and one modifier, and subscription changes of the
\* input-report characteristic.
ScriptUsages == {4, 225}

NextScript ==
    \/ \E s \in BOOLEAN : SubscriptionUpdate(UUID_HID_REPORT, s) /\ Follow /\ HistFrame
    \/ \E u \in ScriptUsages, ok \in BOOLEAN : KeyDownCmd(u, ok) /\ Follow /\ HistFrame
    \/ \E u \in ScriptUsages, ok \in BOOLEAN : KeyUpCmd(u, ok) /\ Follow /\ HistFrame

SpecScript == InitKeys /\ [][NextScript]_vars

\* The number of update_characteristic calls on the battery characteristic that
\* step i of the history made.
BatteryUpdates(i) == Cardinality(UpdatesOn(history[i].calls, UUID_BATTERY_LEVEL))

\* C11: two Battery commands in a row for the same level, handled with
\* battery_notify true, make exactly one update_characteristic call on the
\* battery characteristic between them, wherever in the session they occur.
C11_BatteryTwiceOnce ==
    \A i \in 1 .. Len(history) - 1 :
        (/\ history[i].handled[1] = "Battery"
         /\ history[i + 1].handled = history[i].handled
         /\ history[i].battery_notify
         /\ history[i + 1].battery_notify)
        => BatteryUpdates(i) + BatteryUpdates(i + 1) = 1

\* C12: a step calls update_characteristic on the battery characteristic only
\* with battery_notify true, and two battery transmissions with no battery
\* transmission between them carry different levels.
C12_NoRepeatedBatteryLevel ==
    /\ \A i \in 1 .. Len(history) :
           BatteryUpdates(i) > 0 => history[i].battery_notify
    /\ \A i \in 1 .. Len(history) : \A j \in i + 1 .. Len(history) :
           (/\ BatteryUpdates(i) > 0
            /\ BatteryUpdates(j) > 0
            /\ \A k \in i + 1 .. j - 1 : BatteryUpdates(k) = 0)
           => history[i].handled[2] # history[j].handled[2]

\* The commands of the scenario, after the subscription of the input characteristic.
KeyScript ==
    <<<<"SubscriptionUpdate", UUID_HID_REPORT, TRUE>>,
      <<"KeyDown", 4>>, <<"KeyDown", 225>>, <<"KeyUp", 4>>>>

KeyScriptHandled ==
    /\ Len(history) >= Len(KeyScript)
    /\ \A i \in 1 .. Len(KeyScript) : history[i].handled = KeyScript[i]

\* C13: from the entry of the run loop, the subscription of the input
\* characteristic followed by KeyDown(0x04), KeyDown(0xE1), KeyUp(0x04) makes
\* exactly three update_characteristic calls on the input characteristic, carrying
\* [2,0,0,4,0,0,0,0,0], [2,2,0,4,0,0,0,0,0] and [2,2,0,0,0,0,0,0,0] in that order.
C13_KeyScenarioReports ==
    KeyScriptHandled =>
        /\ history[1].calls = <<>>
        /\ \A i \in 2 .. 4 :
               /\ Len(history[i].calls) = 1
               /\ history[i].calls[1].op = "update_characteristic"
               /\ history[i].calls[1].char = UUID_HID_REPORT
        /\ history[2].calls[1].value = <<2, 0, 0, 4, 0, 0, 0, 0, 0>>
        /\ history[3].calls[1].value = <<2, 2, 0, 4, 0, 0, 0, 0, 0>>
        /\ history[4].calls[1].value = <<2, 2, 0, 0, 0, 0, 0, 0, 0>>

\* The scenario was handled to its end and its last report went out.
C13_Witness ==
    /\ Len(history) = 4
    /\ KeyScriptHandled
    /\ history[4].calls[1].ok
    /\ modifiers = 2
    /\ pressed = {}

\* C14: with the input characteristic subscribed and the usages 0x04..0x09
\* pressed in that order since the set was empty, KeyDown(0x0A) leaves the
\* pressed set equal to {0x05, .., 0x0A}.
C14_SevenKeysDown ==
    [][(/\ insOrder = <<4, 5, 6, 7, 8, 9>>
        /\ input_notify
        /\ handled' = <<"KeyDown", 10>>)
       => pressed' = 5 .. 10]_vars

\* The seventh KeyDown of the scenario was handled and reported.
C14_Witness ==
    /\ handled = <<"KeyDown", 10>>
    /\ insOrder = <<5, 6, 7, 8, 9, 10>>
    /\ pressed = 5 .. 10
    /\ Len(calls) = 1
    /\ calls[1].value = <<2, 0, 0, 5, 6, 7, 8, 9, 10>>

(***************************************************************************)
(* Bring-up, errors and the end of the session.                            *)
(***************************************************************************)
Min(a, b) == IF a < b THEN a ELSE b

\* C15: the sleep after the k-th unpowered poll in a row lasts
\* min(50 * 2^(k-1), 1000) ms; the delay of the wait never exceeds 1000 ms and
\* never decreases while the task is in the wait.
C15_BackoffDelays ==
    /\ [](handled = <<"poll", "unpowered">>
            => calls[2] = Call("sleep", 0, <<Min(50 * 2 ^ (polls - 1), 1000)>>, TRUE))
    /\ [](delay_ms <= 1000)
    /\ [][(pc = "power_wait" /\ pc' = "power_wait") => delay_ms' >= delay_ms]_vars

\* The sixth unpowered poll in a row slept the capped delay.
C15_Witness ==
    /\ handled = <<"poll", "unpowered">>
    /\ polls = 6
    /\ calls[2].value = <<1000>>
    /\ delay_ms = 1000

\* The adapter answers "powered" at some poll if the task keeps polling.
SpecLive == Spec /\ WF_vars(PollPower("powered") /\ BleFrame)

\* C16: an unpowered poll, whatever the number of unpowered polls before it,
\* leaves the task in the wait; a powered poll takes it to the registration of
\* the first service; and the task does not stay in the wait for ever once the
\* adapter answers "powered".
C16_WaitNeverGivesUp ==
    /\ [][(pc = "power_wait" /\ handled' = <<"poll", "unpowered">>)
          => pc' = "power_wait"]_vars
    /\ [][(pc = "power_wait" /\ handled' = <<"poll", "powered">>)
          => pc' = "add_hid"]_vars
    /\ (pc = "power_wait") ~> (pc # "power_wait")

\* The task is still in the wait after MaxPolls unpowered polls or more.
C16_Witness ==
    /\ pc = "power_wait"
    /\ polls = MaxPolls
    /\ delay_ms = 1000
    /\ handled = <<"poll", "unpowered">>

\* C17: a step that handles a Mouse, KeyDown, KeyUp or Battery command and gets
\* an error from update_characteristic leaves the task in the run loop.
C17_UpdateErrorNotFatal ==
    [][(/\ handled'[1] \in {"Mouse", "KeyDown", "KeyUp", "Battery"}
        /\ \E i \in DOMAIN calls' :
               calls'[i].op = "update_characteristic" /\ ~calls'[i].ok)
       => pc' = "run"]_vars

\* C18: when the start_advertising of the bring-up fails, the task enters the
\* run loop with advertising = false.
C18_FirstAdvertiseErrorNotFatal ==
    [][(pc = "start_adv" /\ calls' = <<start_advertising(FALSE)>>)
       => (pc' = "run" /\ ~advertising')]_vars

\* C19: a failed add_service ends the task with the error, and the task takes no
\* step after it has returned an error: no later add_service, no
\* start_advertising, no event and no command.
C19_AddServiceFatal ==
    /\ []((handled[1] = "add_service" /\ ~calls[1].ok) => pc = "done_err")
    /\ [][pc # "done_err"]_vars

\* The second add_service failed and the task returned.
C19_Witness ==
    /\ handled = <<"add_service", UUID_BAS_SERVICE>>
    /\ ~calls[1].ok
    /\ pc = "done_err"
    /\ ~advertising

Endings == {"Exit", "CommandsClosed", "EventsClosed"}

\* C20: the step that handles an Exit command, the closing of the command
\* channel or the closing of the event channel makes exactly one call,
\* stop_advertising, changes no local of the loop and returns from the task; the
\* task takes no step after it has returned.
C20_EndOfSession ==
    /\ [](handled[1] \in Endings
            => /\ Len(calls) = 1
               /\ calls[1].op = "stop_advertising"
               /\ pc = IF calls[1].ok THEN "done_ok" ELSE "done_err")
    /\ [][handled'[1] \in Endings
            => /\ pc = "run"
               /\ UNCHANGED <<advertising, modifiers, pressed, input_notify,
                              battery_notify, last_battery>>]_vars
    /\ [][pc \notin {"done_ok", "done_err"}]_vars

\* The event channel closed while the peer was subscribed, and the task returned.
C20_Witness ==
    /\ handled = <<"EventsClosed">>
    /\ input_notify
    /\ calls = <<stop_advertising(TRUE)>>
    /\ pc = "done_ok"

(***************************************************************************)
(* SpecAdvert: the run loop from its entry, fed power-state events, with   *)
(* history remembering each of them.                                       *)
(***************************************************************************)
NextAdvert ==
    \E p \in BOOLEAN, ok \in BOOLEAN : StateUpdate(p, ok) /\ Follow /\ HistFrame

SpecAdvert == InitKeys /\ [][NextAdvert]_vars

\* The calls of operation op among the calls cs.
CallsOf(cs, op) == {i \in 1 .. Len(cs) : cs[i].op = op}

\* C21: a StateUpdate{is_powered: false} handled while advertising is true makes
\* one stop_advertising call and clears the flag; a StateUpdate{is_powered: true}
\* handled while it is false makes one start_advertising call and sets the flag
\* iff the call succeeded; any other StateUpdate makes no call and leaves the
\* flag; no step calls start_advertising while the flag is true, and no event
\* step calls stop_advertising while it is false.
C21_PowerTogglesAdvertising ==
    /\ [][handled'[1] = "StateUpdate" =>
            IF ~handled'[2] /\ advertising
            THEN /\ Len(calls') = 1
                 /\ calls'[1].op = "stop_advertising"
                 /\ ~advertising'
            ELSE IF handled'[2] /\ ~advertising
                 THEN /\ Len(calls') = 1
                      /\ calls'[1].op = "start_advertising"
                      /\ advertising' = calls'[1].ok
                 ELSE /\ calls' = <<>>
                      /\ advertising' = advertising]_vars
    /\ [][CallsOf(calls', "start_advertising") # {} => ~advertising]_vars
    /\ [][(/\ handled'[1] \in {"StateUpdate", "SubscriptionUpdate", "ReadRequest",
                               "WriteRequest"}
           /\ CallsOf(calls', "stop_advertising") # {}) => advertising]_vars

\* The adapter came back: advertising was restarted from the run loop.
C21_Witness ==
    /\ pc = "run"
    /\ handled = <<"StateUpdate", TRUE>>
    /\ calls = <<start_advertising(TRUE)>>
    /\ advertising
    /\ battery_notify

\* C22: after a StateUpdate{is_powered: true} whose start_advertising failed the
\* task is in the run loop with advertising = false, and each StateUpdate
\* {is_powered: true} that follows a failed one calls start_advertising again.
C22_AdvertiseRetry ==
    /\ \A i \in 1 .. Len(history) :
           (/\ history[i].handled = <<"StateUpdate", TRUE>>
            /\ history[i].calls = <<start_advertising(FALSE)>>
            /\ i = Len(history))
           => (pc = "run" /\ ~advertising)
    /\ \A i \in 1 .. Len(history) - 1 :
           (/\ history[i].handled = <<"StateUpdate", TRUE>>
            /\ history[i].calls = <<start_advertising(FALSE)>>
            /\ history[i + 1].handled = <<"StateUpdate", TRUE>>)
           => /\ Len(history[i + 1].calls) = 1
              /\ history[i + 1].calls[1].op = "start_advertising"

\* start_advertising failed twice in the run loop and succeeded at the third event.
C22_Witness ==
    /\ Len(history) = 4
    /\ history[1].handled = <<"StateUpdate", FALSE>>
    /\ \A i \in 2 .. 4 : history[i].handled = <<"StateUpdate", TRUE>>
    /\ history[2].calls = <<start_advertising(FALSE)>>
    /\ history[3].calls = <<start_advertising(FALSE)>>
    /\ history[4].calls = <<start_advertising(TRUE)>>
    /\ advertising

Requests == {"ReadRequest", "WriteRequest"}

\* Every request is answered once, with Success, and leaves the session state.
RequestsAnswered ==
    /\ [](handled[1] \in Requests
            => /\ Len(calls) = 1
               /\ calls[1].op = (IF handled[1] = "ReadRequest"
                                 THEN "read_response" ELSE "write_response")
               /\ calls[1].char = handled[2]
               /\ calls[1].ok)
    /\ [][handled'[1] \in Requests
            => UNCHANGED <<pc, modifiers, pressed, input_notify, battery_notify,
                           advertising, last_battery>>]_vars

\* C23: every ReadRequest and WriteRequest is answered with Success and leaves
\* the session state, and two read requests handled one after the other get the
\* same value, whatever their characteristics.
C23_FixedReplies ==
    /\ RequestsAnswered
    /\ [][(handled[1] = "ReadRequest" /\ handled'[1] = "ReadRequest")
            => calls'[1].value = calls[1].value]_vars

\* C23 as amended: every ReadRequest and WriteRequest is answered with Success
\* and leaves the session state; the value of a read reply is the one byte
\* last_battery for the battery-level characteristic and empty for any other.
C23_RepliesByCharacteristic ==
    /\ RequestsAnswered
    /\ [](handled[1] = "ReadRequest"
            => calls[1].value = IF handled[2] = UUID_BATTERY_LEVEL
                                THEN <<last_battery>> ELSE <<>>)

\* The battery level was read after a Battery command had set it to 100.
C23_Witness ==
    /\ handled = <<"ReadRequest", UUID_BATTERY_LEVEL>>
    /\ last_battery = 100
    /\ calls[1].value = <<100>>
    /\ calls[1].ok

\* C24: the step that handles a CharacteristicSubscriptionUpdate makes no call,
\* sets input_notify if the event names the input-report characteristic, sets
\* battery_notify if it names the battery-level characteristic, and leaves the
\* other flag, modifiers, pressed set, advertising flag and last battery level.
C24_SubscriptionFrame ==
    [][handled'[1] = "SubscriptionUpdate" =>
         /\ calls' = <<>>
         /\ UNCHANGED <<pc, modifiers, pressed, advertising, last_battery>>
         /\ input_notify' = (IF handled'[2] = UUID_HID_REPORT
                             THEN handled'[3] ELSE input_notify)
         /\ battery_notify' = (IF handled'[2] = UUID_BATTERY_LEVEL
                               THEN handled'[3] ELSE battery_notify)]_vars

\* The peer subscribed to the input characteristic while a letter and a
\* modifier were held, and no report was sent.
C24_Witness ==
    /\ handled = <<"SubscriptionUpdate", UUID_HID_REPORT, TRUE>>
    /\ input_notify
    /\ modifiers = 2
    /\ pressed = {4}
    /\ calls = <<>>

(***************************************************************************)
(* SpecChan: the command channel between the producers and the run loop.   *)
(* A command in the channel carries its producer and its number among the  *)
(* commands of that producer; the program's AppCmd has neither.            *)
(***************************************************************************)
\* Each producer presses and releases its own key, in turn.
ProducerKey(p) == IF p = "a" THEN 4 ELSE 5

CmdOf(p, n) ==
    IF n % 2 = 1 THEN <<"KeyDown", ProducerKey(p)>> ELSE <<"KeyUp", ProducerKey(p)>>

Sent(p, n, cmd) == [from |-> p, n |-> n, cmd |-> cmd]

\* The receiver lives as long as ble_owner_task has not returned.
ReceiverAlive == pc = "run"

\* A try_send that makes room by dropping the oldest command.
try_send_evict(q, m) ==
    IF ~ReceiverAlive THEN q
    ELSE IF Len(q) >= ChannelCap THEN Append(Tail(q), m)
    ELSE Append(q, m)

\* self.cmd_tx.try_send(cmd): the channel after the call. Full or closed, the
\* call returns an error at once and the channel is as it was.
try_send(q, m) ==
    IF ~ReceiverAlive \/ Len(q) >= ChannelCap THEN q ELSE Append(q, m)

\* A recv that returns the newest command of the channel.
recv_newest(q) == <<q[Len(q)], SubSeq(q, 1, Len(q) - 1)>>

\* cmd_rx.recv() on a channel that is not empty: <<the command, the channel after>>
recv(q) == <<Head(q), Tail(q)>>

\* App::send(cmd) by producer p; `let _ =` discards the result of try_send.
AppSend(p) ==
    LET m == Sent(p, sends[p] + 1, CmdOf(p, sends[p] + 1))
    IN  /\ sends[p] < MaxSends
        /\ sends' = [sends EXCEPT ![p] = @ + 1]
        /\ chan' = try_send(chan, m)
        /\ dropped' = IF m \in {chan'[i] : i \in 1 .. Len(chan')}
                      THEN dropped ELSE dropped \cup {m}
        /\ UNCHANGED <<received, bleVars, codecVars, uiVars, mainVars>>

\* cmd = cmd_rx.recv() => match cmd { .. } for the key commands
RecvCmd(ok) ==
    /\ pc = "run"
    /\ chan # <<>>
    /\ LET got == recv(chan)
       IN  /\ chan' = got[2]
           /\ received' = Append(received, got[1])
           /\ IF got[1].cmd[1] = "KeyDown"
              THEN KeyDownCmd(got[1].cmd[2], ok)
              ELSE KeyUpCmd(got[1].cmd[2], ok)
    /\ UNCHANGED <<sends, dropped, insOrder, history, released, radio, codecVars,
                 uiVars, mainVars>>

NextChan ==
    \/ \E p \in Producers : AppSend(p)
    \/ \E ok \in BOOLEAN : RecvCmd(ok)
    \/ \E sub \in BOOLEAN : SubscriptionUpdate(UUID_HID_REPORT, sub) /\ BleFrame

SpecChan == InitKeys /\ [][NextChan]_vars

InChan(q) == {q[i] : i \in 1 .. Len(q)}

\* C25: a producer that has a command to send can always take its send step;
\* a send on a full channel leaves the channel as it was, and the command it
\* carried is in neither the channel nor the received commands afterwards; a
\* send on a channel with room and a live receiver puts the command at the tail.
C25_SendNeverBlocks ==
    /\ [](\A p \in Producers :
            sends[p] < MaxSends => ENABLED AppSend(p))
    /\ [][\A p \in Producers :
            sends'[p] = sends[p] + 1 =>
                IF Len(chan) >= ChannelCap
                THEN /\ chan' = chan
                     /\ \E m \in dropped' \ dropped : m.from = p /\ m.n = sends'[p]
                ELSE ReceiverAlive =>
                     /\ Len(chan') = Len(chan) + 1
                     /\ SubSeq(chan', 1, Len(chan)) = chan
                     /\ chan'[Len(chan')].from = p
                     /\ chan'[Len(chan')].n = sends'[p]]_vars
    /\ [](dropped \cap (InChan(chan) \cup InChan(received)) = {})

\* A command was refused by the full channel, and the run loop is still receiving.
C25_Witness ==
    /\ pc = "run"
    /\ Len(chan) = ChannelCap
    /\ received # <<>>
    /\ \E m \in dropped : m.from = "a" /\ m.n = 2

\* C26: the commands of one producer are received in the order of their numbers.
C26_PerProducerOrder ==
    \A i \in 1 .. Len(received) : \A j \in i + 1 .. Len(received) :
        received[i].from = received[j].from => received[i].n < received[j].n

\* Commands of two producers were received interleaved, one of them after a
\* command of the same producer had been dropped.
C26_Witness ==
    /\ Len(received) >= 3
    /\ received[1].from = "a"
    /\ received[2].from = "b"
    /\ received[3].from = "a"
    /\ received[3].n = 3
    /\ \E m \in dropped : m.from = "a" /\ m.n = 2

\* The bit of modifier usage u is set in mask m.
ModifierDown(m, u) == (m \div 2 ^ (u - 224)) % 2 = 1

\* C27: a KeyDown or KeyUp handled with the input characteristic subscribed,
\* right after the same command was handled and reported, leaves modifiers and
\* pressed set as they are; a KeyUp of an ordinary usage that is not in the
\* pressed set, or of a modifier usage whose bit is clear, leaves both as well.
C27_KeyCommandsIdempotent ==
    /\ [][(/\ handled[1] \in {"KeyDown", "KeyUp"}
           /\ Len(calls) = 1
           /\ input_notify
           /\ handled' = handled)
          => (modifiers' = modifiers /\ pressed' = pressed)]_vars
    /\ [][(/\ handled'[1] = "KeyUp"
           /\ IF handled'[2] \in ModifierUsages
              THEN ~ModifierDown(modifiers, handled'[2])
              ELSE handled'[2] \notin pressed)
          => (modifiers' = modifiers /\ pressed' = pressed)]_vars

\* KeyDown(0x04) was handled while 0x05..0x0A were pressed: it was inserted and
\* removed at once, so a second KeyDown(0x04) meets the same state.
C27_Witness ==
    /\ handled = <<"KeyDown", 4>>
    /\ input_notify
    /\ pc = "run"
    /\ pressed = 5 .. 10
    /\ modifiers = 2
    /\ Len(calls) = 1

\* The mask with the bit of value v set (down) or cleared.
WithBit(m, v, down) ==
    LET has == (m \div v) % 2 = 1
    IN  IF down THEN (IF has THEN m ELSE m + v) ELSE (IF has THEN m - v ELSE m)

\* C28: the button mask of App is always in 0..7; a MouseInput of the Left,
\* Middle or Right button sets (press) or clears (release) bit 0, 1 or 2, and
\* no other window event changes the mask.
C28_ButtonMask ==
    /\ [](mouse_buttons \in 0 .. 7)
    /\ [][IF event'[1] = "MouseInput" /\ event'[2] \in {"Left", "Middle", "Right"}
          THEN mouse_buttons' =
                   WithBit(mouse_buttons,
                           CASE event'[2] = "Left" -> 1
                             [] event'[2] = "Middle" -> 2
                             [] OTHER -> 4,
                           event'[3])
          ELSE mouse_buttons' = mouse_buttons]_vars

\* The Back button was pressed while Left and Right were held.
C28_Witness ==
    /\ event = <<"MouseInput", "Back", TRUE>>
    /\ mouse_buttons = 5
    /\ sent = <<<<"Mouse", 5, 0, 0, 0>>>>

\* C29: when the task enters the run loop, modifiers is 0, the pressed set is
\* empty, both subscription flags are false and the last battery level is 0.
C29_ZeroDefaults ==
    (pc = "run" /\ handled = <<"advertise">>)
    => /\ modifiers = 0
       /\ pressed = {}
       /\ ~input_notify
       /\ ~battery_notify
       /\ last_battery = 0

(***************************************************************************)
(* src/src/hid.rs: keycode_to_hid, and the keyboard side of App in         *)
(* src/src/ui.rs. A key code is the name of its winit::keyboard::KeyCode   *)
(* variant.                                                                *)
(***************************************************************************)
\* The arms of the match, one field per arm.
KeyTable ==
    [KeyA |-> 4, KeyB |-> 5, KeyC |-> 6, KeyD |-> 7, KeyE |-> 8, KeyF |-> 9,
     KeyG |-> 10, KeyH |-> 11, KeyI |-> 12, KeyJ |-> 13, KeyK |-> 14,
     KeyL |-> 15, KeyM |-> 16, KeyN |-> 17, KeyO |-> 18, KeyP |-> 19,
     KeyQ |-> 20, KeyR |-> 21, KeyS |-> 22, KeyT |-> 23, KeyU |-> 24,
     KeyV |-> 25, KeyW |-> 26, KeyX |-> 27, KeyY |-> 28, KeyZ |-> 29,
     Digit1 |-> 30, Digit2 |-> 31, Digit3 |-> 32, Digit4 |-> 33,
     Digit5 |-> 34, Digit6 |-> 35, Digit7 |-> 36, Digit8 |-> 37,
     Digit9 |-> 38, Digit0 |-> 39, Enter |-> 40, Escape |-> 41,
     Backspace |-> 42, Tab |-> 43, Space |-> 44, Minus |-> 45, Equal |-> 46,
     BracketLeft |-> 47, BracketRight |-> 48, Backslash |-> 49,
     IntlBackslash |-> 50, Semicolon |-> 51, Quote |-> 52, Backquote |-> 53,
     Comma |-> 54, Period |-> 55, Slash |-> 56, CapsLock |-> 57, F1 |-> 58,
     F2 |-> 59, F3 |-> 60, F4 |-> 61, F5 |-> 62, F6 |-> 63, F7 |-> 64,
     F8 |-> 65, F9 |-> 66, F10 |-> 67, F11 |-> 68, F12 |-> 69,
     PrintScreen |-> 70, ScrollLock |-> 71, Pause |-> 72, Insert |-> 73,
     Home |-> 74, PageUp |-> 75, Delete |-> 76, End |-> 77, PageDown |-> 78,
     ArrowRight |-> 79, ArrowLeft |-> 80, ArrowDown |-> 81, ArrowUp |-> 82,
     NumLock |-> 83, NumpadDivide |-> 84, NumpadMultiply |-> 85,
     NumpadSubtract |-> 86, NumpadAdd |-> 87, NumpadEnter |-> 88,
     Numpad1 |-> 89, Numpad2 |-> 90, Numpad3 |-> 91, Numpad4 |-> 92,
     Numpad5 |-> 93, Numpad6 |-> 94, Numpad7 |-> 95, Numpad8 |-> 96,
     Numpad9 |-> 97, Numpad0 |-> 98, NumpadDecimal |-> 99,
     ControlLeft |-> 224, ShiftLeft |-> 225, AltLeft |-> 226,
     SuperLeft |-> 227, ControlRight |-> 228, ShiftRight |-> 229,
     AltRight |-> 230, SuperRight |-> 231]

\* Key codes of winit that the match leaves to its `_` arm.
UnmappedKeyCodes == {"F13", "ContextMenu", "Fn", "NumpadEqual", "IntlRo", "Lang1"}

KeyCodes == DOMAIN KeyTable \cup UnmappedKeyCodes

\* A table whose `_` arm answers with usage 0 instead of None.
keycode_to_hid_fallback(code) ==
    IF code \in DOMAIN KeyTable THEN Some(KeyTable[code]) ELSE Some(0)

keycode_to_hid(code) ==
    IF code \in DOMAIN KeyTable THEN Some(KeyTable[code]) ELSE None

\* App::note_modifier_physical_transition: the mask after the transition
note_modifier_physical_transition(usage, down) ==
    IF usage \in 224 .. 231
    THEN IF down
         THEN BitOr(hid_mod_mask, 2 ^ (usage - 224))
         ELSE BitAndNot(hid_mod_mask, 2 ^ (usage - 224))
    ELSE hid_mod_mask

\* The physical keys the window delivers: PhysicalKey::Code(code) for three
\* mapped keys, two modifiers and an unmapped key, and PhysicalKey::Unidentified.
PhysicalKeys ==
    {<<"Code", "KeyA">>, <<"Code", "Digit1">>, <<"Code", "Enter">>,
     <<"Code", "ShiftLeft">>, <<"Code", "SuperRight">>, <<"Code", "F13">>,
     <<"Unidentified">>}

\* WindowEvent::KeyboardInput { event, .. }: what the arm does to the App
KeyboardInputArm(key, down) ==
    LET usage == IF key[1] = "Code" THEN keycode_to_hid(key[2]) ELSE None
    IN  /\ ~exiting
        /\ event' = <<"KeyboardInput", key, down>>
        /\ IF usage # None
           THEN /\ pressed_usages' = IF down
                                     THEN pressed_usages \cup {usage[1]}
                                     ELSE pressed_usages \ {usage[1]}
                /\ sent' = <<<<IF down THEN "KeyDown" ELSE "KeyUp", usage[1]>>>>
                /\ hid_mod_mask' = note_modifier_physical_transition(usage[1], down)
           ELSE /\ sent' = <<>>
                /\ UiKeysUnchanged
        /\ UNCHANGED <<mouse_buttons, cursor_last, wheel_px_accum, exiting>>

\* WindowEvent::KeyboardInput { event, .. }
KeyboardInput(key, down) == KeyboardInputArm(key, down) /\ UiFrame

\* A Focused arm that releases the ordinary usages and forgets the modifiers.
FocusedArm_ordinary(focused) ==
    /\ ~exiting
    /\ event' = <<"Focused", focused>>
    /\ IF ~focused
       THEN /\ sent' = [i \in 1 .. Cardinality(pressed_usages \ ModifierUsages) |->
                           <<"KeyUp", BTreeIter(pressed_usages \ ModifierUsages)[i]>>]
            /\ pressed_usages' = {}
            /\ hid_mod_mask' = 0
       ELSE /\ sent' = <<>>
            /\ UiKeysUnchanged
    /\ UNCHANGED <<mouse_buttons, cursor_last, wheel_px_accum, exiting>>

\* WindowEvent::Focused(focused): what the arm does to the App
FocusedArm(focused) ==
    /\ ~exiting
    /\ event' = <<"Focused", focused>>
    /\ IF ~focused
       THEN /\ sent' = [i \in 1 .. Cardinality(pressed_usages) |->
                           <<"KeyUp", BTreeIter(pressed_usages)[i]>>]
            /\ pressed_usages' = {}
            /\ hid_mod_mask' = 0
       ELSE /\ sent' = <<>>
            /\ UiKeysUnchanged
    /\ UNCHANGED <<mouse_buttons, cursor_last, wheel_px_accum, exiting>>

\* WindowEvent::Focused(focused)
Focused(focused) == FocusedArm(focused) /\ UiFrame

NextUiKeys ==
    \/ CloseRequested
    \/ \E k \in PhysicalKeys, d \in BOOLEAN : KeyboardInput(k, d)
    \/ \E f \in BOOLEAN : Focused(f)

SpecUiKeys == InitUi /\ [][NextUiKeys]_vars

\* C30: keycode_to_hid answers every key code with one usage or with nothing;
\* KeyA gives 0x04, Digit1 0x1E, Enter 0x28, the eight modifier keys 0xE0..0xE7,
\* a key code outside the table nothing; no two key codes give the same usage;
\* and a KeyboardInput event sends one KeyDown or KeyUp with the usage of its
\* key if the key has one, and nothing if it has none.
C30_KeycodeMapping ==
    /\ \A c \in KeyCodes :
           keycode_to_hid(c) = None \/ \E u \in U8 : keycode_to_hid(c) = Some(u)
    /\ keycode_to_hid("KeyA") = Some(4)
    /\ keycode_to_hid("Digit1") = Some(30)
    /\ keycode_to_hid("Enter") = Some(40)
    /\ <<keycode_to_hid("ControlLeft"), keycode_to_hid("ShiftLeft"),
         keycode_to_hid("AltLeft"), keycode_to_hid("SuperLeft"),
         keycode_to_hid("ControlRight"), keycode_to_hid("ShiftRight"),
         keycode_to_hid("AltRight"), keycode_to_hid("SuperRight")>>
       = [i \in 1 .. 8 |-> Some(223 + i)]
    /\ \A c \in UnmappedKeyCodes : keycode_to_hid(c) = None
    /\ \A c \in KeyCodes, d \in KeyCodes :
           (c # d /\ keycode_to_hid(c) # None) => keycode_to_hid(c) # keycode_to_hid(d)
    /\ event[1] = "KeyboardInput" =>
           IF event[2][1] = "Code" /\ event[2][2] \in DOMAIN KeyTable
           THEN sent = <<<<IF event[3] THEN "KeyDown" ELSE "KeyUp",
                           KeyTable[event[2][2]]>>>>
           ELSE sent = <<>>

\* A key without a usage was pressed while a letter and a modifier were held:
\* nothing was sent.
C30_Witness ==
    /\ event = <<"KeyboardInput", <<"Code", "F13">>, TRUE>>
    /\ sent = <<>>
    /\ pressed_usages = {4, 225}
    /\ hid_mod_mask = 2

(***************************************************************************)
(* SpecMain: the run loop of the monolithic variant, ble_owner_task of     *)
(* src/src/main.rs, from its entry. It has one flag, notify, and no        *)
(* last_battery; peer_subs and prev_level follow what the events and       *)
(* commands said.                                                          *)
(***************************************************************************)
MainFrame == UNCHANGED <<insOrder, history, released, radio, codecVars, uiVars,
                         chanVars, delay_ms, polls, advertising, last_battery,
                         input_notify, battery_notify>>

\* Some(PeripheralEvent::CharacteristicSubscriptionUpdate { request, subscribed })
MainSubscriptionUpdate(char, sub) ==
    /\ pc = "run"
    /\ handled' = <<"SubscriptionUpdate", char, sub>>
    /\ calls' = <<>>
    /\ notify' = IF char = UUID_HID_REPORT THEN sub ELSE notify
    /\ peer_subs' = IF sub THEN peer_subs \cup {char} ELSE peer_subs \ {char}
    /\ UNCHANGED <<pc, prev_level>>
    /\ KeysUnchanged

\* Some(AppCmd::Mouse { buttons, dx, dy, wheel }) if notify, else Some(_) => {}
MainMouseCmd(m, ok) ==
    /\ pc = "run"
    /\ handled' = <<"Mouse", m>>
    /\ IF notify
       THEN /\ calls' = <<update_characteristic(UUID_HID_REPORT,
                              build_mouse_report(m[1], m[2], m[3], m[4]), ok)>>
            /\ pc' = AfterCall(ok, "run")
       ELSE /\ ok
            /\ calls' = <<>>
            /\ UNCHANGED pc
    /\ UNCHANGED <<notify, peer_subs, prev_level>>
    /\ KeysUnchanged

\* Some(AppCmd::Battery(level))
MainBatteryCmd(level, ok) ==
    /\ pc = "run"
    /\ handled' = <<"Battery", level>>
    /\ calls' = <<update_characteristic(UUID_BATTERY_LEVEL, <<level>>, ok)>>
    /\ pc' = AfterCall(ok, "run")
    /\ prev_level' = Some(level)
    /\ UNCHANGED <<notify, peer_subs>>
    /\ KeysUnchanged

NextMain ==
    \/ \E c \in Characteristics, s \in BOOLEAN : MainSubscriptionUpdate(c, s) /\ MainFrame
    \/ \E m \in MouseSamples, ok \in BOOLEAN : MainMouseCmd(m, ok) /\ MainFrame
    \/ \E l \in BatteryLevels, ok \in BOOLEAN : MainBatteryCmd(l, ok) /\ MainFrame

SpecMain == InitKeys /\ [][NextMain]_vars

\* C31: in the variant of src/src/main.rs, a Battery command handled while the
\* peer is not subscribed to the battery-level characteristic makes no
\* update_characteristic call, and a Battery command that makes one was handled
\* while the peer was subscribed and carries a level other than that of the
\* Battery command before it.
C31_MainBatteryGated ==
    /\ []((handled[1] = "Battery" /\ UUID_BATTERY_LEVEL \notin peer_subs)
            => calls = <<>>)
    /\ [][(handled'[1] = "Battery" /\ calls' # <<>>)
            => (UUID_BATTERY_LEVEL \in peer_subs /\ prev_level # Some(handled'[2]))]_vars

(***************************************************************************)
(* Key commands and the subscription of the input characteristic.          *)
(***************************************************************************)
\* C32: a KeyDown or KeyUp command handled while input_notify is false makes no
\* call and leaves modifiers and pressed set as they were.
C32_UnsubscribedKeysDropped ==
    [][(handled'[1] \in {"KeyDown", "KeyUp"} /\ ~input_notify)
         => (modifiers' = modifiers /\ pressed' = pressed /\ calls' = <<>>)]_vars

\* KeyDown(0x05) was handled while the peer was unsubscribed and 0x04 and LShift
\* were held: the key state does not hold 0x05.
C32_Witness ==
    /\ handled = <<"KeyDown", 5>>
    /\ ~input_notify
    /\ calls = <<>>
    /\ pressed = {4}
    /\ modifiers = 2

(***************************************************************************)
(* SpecKeyUp: the key handling of the run loop, with released following    *)
(* the key commands: <<u, s>> is in it when a KeyUp(u) was handled with    *)
(* input_notify = s and no KeyDown(u) was handled since.                   *)
(***************************************************************************)
KeyUpUsages == {4, 5, 225}

KeyUpFrame == UNCHANGED <<insOrder, history, radio, codecVars, uiVars, chanVars,
                          mainVars>>

NextKeyUp ==
    \/ \E s \in BOOLEAN :
           /\ SubscriptionUpdate(UUID_HID_REPORT, s)
           /\ UNCHANGED released
           /\ KeyUpFrame
    \/ \E u \in KeyUpUsages, ok \in BOOLEAN :
           /\ KeyDownCmd(u, ok)
           /\ released' = released \ {<<u, TRUE>>, <<u, FALSE>>}
           /\ KeyUpFrame
    \/ \E u \in KeyUpUsages, ok \in BOOLEAN :
           /\ KeyUpCmd(u, ok)
           /\ released' = released \cup {<<u, input_notify>>}
           /\ KeyUpFrame

SpecKeyUp == InitKeys /\ [][NextKeyUp]_vars

\* The keyboard reports among the calls of the last step.
KeyboardReports ==
    {calls[i].value : i \in {j \in 1 .. Len(calls) :
                                /\ calls[j].op = "update_characteristic"
                                /\ calls[j].char = UUID_HID_REPORT
                                /\ calls[j].value[1] = RID_KEYBD}}

\* Report r shows usage u as held: its modifier bit, or one of the six key bytes.
ReportHolds(r, u) ==
    IF u \in ModifierUsages
    THEN ModifierDown(r[2], u)
    ELSE \E i \in 4 .. 9 : r[i] = u

\* C33 as claimed: after a KeyUp(u) handled in any subscription state, no
\* keyboard report shows u as held until a KeyDown(u) is handled.
C33_ReleasedNeverReported ==
    \A e \in released : \A r \in KeyboardReports : ~ReportHolds(r, e[1])

\* C33: after a KeyUp(u) handled while the input characteristic was subscribed,
\* no keyboard report shows u as held until a KeyDown(u) is handled.
C33_ReleasedWhileSubscribed ==
    \A u \in KeyUpUsages :
        <<u, TRUE>> \in released => \A r \in KeyboardReports : ~ReportHolds(r, u)

\* 0x04 and LShift were released while subscribed, then KeyDown(0x05) was
\* reported: the report holds 0x05 alone.
C33_Witness ==
    /\ released = {<<4, TRUE>>, <<225, TRUE>>}
    /\ handled = <<"KeyDown", 5>>
    /\ KeyboardReports = {<<RID_KEYBD, 0, 0, 5, 0, 0, 0, 0, 0>>}

(***************************************************************************)
(* SpecShim: ble_owner_task with radio following the peripheral: it starts *)
(* to advertise when a start_advertising call succeeds and stops when a    *)
(* stop_advertising call succeeds; a failed call leaves it as it was.      *)
(***************************************************************************)
RadioAfter(r, cs) ==
    IF \E i \in CallsOf(cs, "start_advertising") : cs[i].ok THEN TRUE
    ELSE IF \E i \in CallsOf(cs, "stop_advertising") : cs[i].ok THEN FALSE
    ELSE r

ShimFrame ==
    /\ radio' = RadioAfter(radio, calls')
    /\ UNCHANGED <<insOrder, history, released, codecVars, uiVars, chanVars, mainVars>>

NextShim ==
    \/ \E ok \in BOOLEAN : NewPeripheral(ok) /\ ShimFrame
    \/ \E answer \in {"powered", "unpowered", "error"} : PollPower(answer) /\ ShimFrame
    \/ \E ok \in BOOLEAN : AddService(ok) /\ ShimFrame
    \/ \E ok \in BOOLEAN : FirstAdvertise(ok) /\ ShimFrame
    \/ \E p \in BOOLEAN, ok \in BOOLEAN : StateUpdate(p, ok) /\ ShimFrame
    \/ \E c \in Characteristics, s \in BOOLEAN : SubscriptionUpdate(c, s) /\ ShimFrame
    \/ \E m \in MouseSamples, ok \in BOOLEAN : MouseCmd(m, ok) /\ ShimFrame
    \/ \E ok \in BOOLEAN : EventsClosed(ok) /\ ShimFrame
    \/ \E ok \in BOOLEAN : CommandsClosed(ok) /\ ShimFrame

SpecShim == Init /\ [][NextShim]_vars

\* C34 as claimed: in the run loop the advertising flag equals the real
\* advertising state of the peripheral, and no start_advertising call is made
\* while the peripheral advertises.
C34_FlagIsRadio ==
    /\ [](pc = "run" => advertising = radio)
    /\ [][(pc = "run" /\ CallsOf(calls', "start_advertising") # {}) => ~radio]_vars

\* C34: in the run loop the advertising flag is set only while the peripheral
\* really advertises; the flag is clear while it advertises only after a
\* stop_advertising call of the StateUpdate branch has failed.
C34_FlagImpliesRadio ==
    /\ [](pc = "run" => (advertising => radio))
    /\ [][(pc' = "run" /\ radio' /\ ~advertising' /\ (advertising \/ ~radio))
            => (/\ handled' = <<"StateUpdate", FALSE>>
                /\ calls' = <<stop_advertising(FALSE)>>)]_vars

\* A stop_advertising call failed: the flag is clear and the peripheral still
\* advertises.
C34_Witness ==
    /\ pc = "run"
    /\ handled = <<"StateUpdate", FALSE>>
    /\ calls = <<stop_advertising(FALSE)>>
    /\ ~advertising
    /\ radio

\* C35: a step by which the task returns from the run loop, with Ok or with an
\* error, calls stop_advertising.
C35_StopBeforeReturn ==
    [][(pc = "run" /\ pc' \in {"done_ok", "done_err"})
         => CallsOf(calls', "stop_advertising") # {}]_vars

(***************************************************************************)
(* SpecFocus: the App, the command channel and the run loop together. The  *)
(* window delivers key events and then loses the focus; every command the  *)
(* App sends goes through try_send, and the run loop receives and handles  *)
(* the commands one at a time. received remembers with each command the    *)
(* value of input_notify it met.                                           *)
(***************************************************************************)
FocusKeys == {<<"Code", "KeyA">>, <<"Code", "ShiftLeft">>}

\* for each command of cmds in order: self.cmd_tx.try_send(cmd)
RECURSIVE SendAll(_, _, _)
SendAll(q, cmds, n) ==
    IF cmds = <<>> THEN q
    ELSE SendAll(try_send(q, Sent("a", n + 1, Head(cmds))), Tail(cmds), n + 1)

\* The commands the window event passed to App::send enter the channel or are
\* dropped.
FocusSend ==
    /\ sends' = [sends EXCEPT !["a"] = @ + Len(sent')]
    /\ chan' = SendAll(chan, sent', sends["a"])
    /\ dropped' = dropped \cup
           ({Sent("a", sends["a"] + i, sent'[i]) : i \in 1 .. Len(sent')} \ InChan(chan'))
    /\ UNCHANGED <<received, bleVars, codecVars, mainVars>>

FocusKeyboardInput(key, down) ==
    /\ event # <<"Focused", FALSE>>
    /\ sends["a"] < MaxKeyEvents
    /\ KeyboardInputArm(key, down)
    /\ FocusSend

FocusLost ==
    /\ event # <<"Focused", FALSE>>
    /\ FocusedArm(FALSE)
    /\ FocusSend

\* cmd = cmd_rx.recv() => match cmd { .. } for the key commands
FocusRecv(ok) ==
    /\ pc = "run"
    /\ chan # <<>>
    /\ LET got == recv(chan)
       IN  /\ chan' = got[2]
           /\ received' = Append(received,
                  [from |-> got[1].from, n |-> got[1].n, cmd |-> got[1].cmd,
                   sub |-> input_notify])
           /\ IF got[1].cmd[1] = "KeyDown"
              THEN KeyDownCmd(got[1].cmd[2], ok)
              ELSE KeyUpCmd(got[1].cmd[2], ok)
    /\ UNCHANGED <<sends, dropped, insOrder, history, released, radio, codecVars,
                 uiVars, mainVars>>

NextFocus ==
    \/ \E k \in FocusKeys, d \in BOOLEAN : FocusKeyboardInput(k, d)
    \/ FocusLost
    \/ \E ok \in BOOLEAN : FocusRecv(ok)
    \/ \E sub \in BOOLEAN : SubscriptionUpdate(UUID_HID_REPORT, sub) /\ BleFrame

SpecFocus == InitKeys /\ [][NextFocus]_vars

\* The commands the Focused(false) event sent, as they were numbered.
FocusBatch ==
    IF event = <<"Focused", FALSE>>
    THEN {Sent("a", sends["a"] - Len(sent) + i, sent[i]) : i \in 1 .. Len(sent)}
    ELSE {}

\* Command m was received and handled with input_notify true.
ProcessedSubscribed(m) ==
    \E i \in 1 .. Len(received) :
        received[i] = [from |-> m.from, n |-> m.n, cmd |-> m.cmd, sub |-> TRUE]

\* Every KeyUp command the App has sent was received and handled with
\* input_notify true.
KeyUpsProcessedSubscribed ==
    /\ \A m \in dropped : m.cmd[1] # "KeyUp"
    /\ \A i \in 1 .. Len(chan) : chan[i].cmd[1] # "KeyUp"
    /\ \A i \in 1 .. Len(received) : received[i].cmd[1] = "KeyUp" => received[i].sub

\* What Focused(false) does to the App: one KeyUp per usage of pressed_usages in
\* ascending order, then an empty set and a zero mask.
FocusLossReleasesAll ==
    [][(event' = <<"Focused", FALSE>> /\ event # <<"Focused", FALSE>>)
         => (/\ sent' = [i \in 1 .. Cardinality(pressed_usages) |->
                            <<"KeyUp", BTreeIter(pressed_usages)[i]>>]
             /\ pressed_usages' = {}
             /\ hid_mod_mask' = 0)]_vars

\* C36 as claimed: Focused(false) releases every usage of pressed_usages, and
\* once all the commands it sent have been handled while subscribed, the pressed
\* set of the run loop is empty and its modifier mask is 0.
C36_FocusLossClearsKeys ==
    /\ FocusLossReleasesAll
    /\ []((event = <<"Focused", FALSE>> /\ \A m \in FocusBatch : ProcessedSubscribed(m))
            => (pressed = {} /\ modifiers = 0))

\* C36: Focused(false) releases every usage of pressed_usages, and once all the
\* commands it sent, and every KeyUp command the App sent before them, have been
\* handled while subscribed, the pressed set of the run loop is empty and its
\* modifier mask is 0.
C36_FocusLossAfterAllKeyUps ==
    /\ FocusLossReleasesAll
    /\ []((event = <<"Focused", FALSE>> /\ KeyUpsProcessedSubscribed)
            => (pressed = {} /\ modifiers = 0))

\* The focus was lost with 0x04 and LShift held; both KeyUp commands and the two
\* KeyDown commands before them were handled while subscribed.
C36_Witness ==
    /\ event = <<"Focused", FALSE>>
    /\ sent = <<<<"KeyUp", 4>>, <<"KeyUp", 225>>>>
    /\ Len(received) = 4
    /\ \A i \in 1 .. 4 : received[i].sub
    /\ pressed = {}
    /\ modifiers = 0
    /\ pressed_usages = {}
    /\ hid_mod_mask = 0

(***************************************************************************)
(* SpecRead: Battery commands, subscription changes of the battery-level   *)
(* characteristic and read requests, with history.                         *)
(***************************************************************************)
ReadLevels == {0, 95}
ReadCharacteristics == {UUID_BATTERY_LEVEL, UUID_HID_REPORT}

NextRead ==
    \/ \E s \in BOOLEAN : SubscriptionUpdate(UUID_BATTERY_LEVEL, s) /\ Follow /\ HistFrame
    \/ \E l \in ReadLevels : BatteryCmd(l, TRUE) /\ Follow /\ HistFrame
    \/ \E c \in ReadCharacteristics : ReadRequest(c) /\ Follow /\ HistFrame

SpecRead == InitKeys /\ [][NextRead]_vars

\* The levels of the Battery commands among the first n steps, oldest first,
\* after the level the session starts with.
RECURSIVE LevelsUpTo(_)
LevelsUpTo(n) ==
    IF n = 0 THEN <<InitialBattery>>
    ELSE IF history[n].handled[1] = "Battery"
         THEN Append(LevelsUpTo(n - 1), history[n].handled[2])
         ELSE LevelsUpTo(n - 1)

\* The last level of ls that differs from the level before it; the first level
\* if there is none.
RECURSIVE LastChanged(_)
LastChanged(ls) ==
    IF Len(ls) = 1 THEN ls[1]
    ELSE IF ls[Len(ls)] # ls[Len(ls) - 1] THEN ls[Len(ls)]
    ELSE LastChanged(SubSeq(ls, 1, Len(ls) - 1))

\* C37: a ReadRequest on the battery-level characteristic is answered with the
\* one byte of the level of the last Battery command handled before it whose
\* level differed from the level of the Battery command before that one (95 at
\* the start), transmitted or not; a ReadRequest on another characteristic is
\* answered with the empty value.
C37_BatteryReadValue ==
    \A i \in 1 .. Len(history) :
        history[i].handled[1] = "ReadRequest"
        => /\ Len(history[i].calls) = 1
           /\ history[i].calls[1].op = "read_response"
           /\ history[i].calls[1].value =
                  IF history[i].handled[2] = UUID_BATTERY_LEVEL
                  THEN <<LastChanged(LevelsUpTo(i - 1))>>
                  ELSE <<>>

\* Battery(0) was handled twice while the peer was unsubscribed, nothing was
\* transmitted, and a read of the battery level was answered with 0.
C37_Witness ==
    /\ Len(history) = 3
    /\ history[1].handled = <<"Battery", 0>>
    /\ history[2].handled = <<"Battery", 0>>
    /\ history[3].handled = <<"ReadRequest", UUID_BATTERY_LEVEL>>
    /\ \A i \in 1 .. 2 : history[i].calls = <<>> /\ ~history[i].battery_notify
    /\ history[3].calls[1].value = <<0>>

(***************************************************************************)
(* The two gates of the command branch.                                    *)
(***************************************************************************)
\* A Mouse, KeyDown or Battery command handled now would be transmitted.
MouseTransmits ==
    ENABLED (\E m \in MouseSamples, ok \in BOOLEAN :
                 MouseCmd(m, ok) /\ calls' # <<>> /\ BleFrame)
KeyDownTransmits ==
    ENABLED (\E u \in Usages, ok \in BOOLEAN :
                 KeyDownCmd(u, ok) /\ calls' # <<>> /\ BleFrame)
BatteryTransmits ==
    ENABLED (\E l \in BatteryLevels, ok \in BOOLEAN :
                 BatteryCmd(l, ok) /\ calls' # <<>> /\ BleFrame)

\* C38: in the run loop a Mouse command would be transmitted exactly when a
\* KeyDown command would be, namely when input_notify is true, both on the one
\* input-report characteristic, and a Battery command with a new level exactly
\* when battery_notify is true; a subscription change of the battery-level
\* characteristic leaves input_notify, one of the input-report characteristic
\* leaves battery_notify.
C38_TwoIndependentGates ==
    /\ [](pc = "run" => /\ MouseTransmits <=> KeyDownTransmits
                        /\ MouseTransmits <=> input_notify
                        /\ BatteryTransmits <=> battery_notify)
    /\ [](handled[1] \in {"Mouse", "KeyDown", "KeyUp"}
            => \A i \in 1 .. Len(calls) : calls[i].char = UUID_HID_REPORT)
    /\ [][(handled'[1] = "SubscriptionUpdate" /\ handled'[2] = UUID_BATTERY_LEVEL)
            => input_notify' = input_notify]_vars
    /\ [][(handled'[1] = "SubscriptionUpdate" /\ handled'[2] = UUID_HID_REPORT)
            => battery_notify' = battery_notify]_vars

\* The peer subscribed to the battery level while it was not subscribed to the
\* input reports: battery levels are transmitted, input reports are not.
C38_Witness ==
    /\ pc = "run"
    /\ handled = <<"SubscriptionUpdate", UUID_BATTERY_LEVEL, TRUE>>
    /\ battery_notify
    /\ ~input_notify
    /\ BatteryTransmits
    /\ ~MouseTransmits
    /\ ~KeyDownTransmits

(***************************************************************************)
(* SpecExit: the command channel and the run loop, with the ways out of    *)
(* the loop: an Exit command received from the channel, and the event      *)
(* channel closed while commands are queued. (cmd_rx.recv() gives None     *)
(* only on a closed and empty channel: nothing is queued then.)            *)
(***************************************************************************)
\* The producer that sends the shutdown command.
ExitSender == "b"

\* App::send(AppCmd::Exit) by producer p
ExitSend(p) ==
    LET m == Sent(p, sends[p] + 1, <<"Exit">>)
    IN  /\ sends[p] < MaxSends
        /\ sends' = [sends EXCEPT ![p] = @ + 1]
        /\ chan' = try_send(chan, m)
        /\ dropped' = IF m \in InChan(chan') THEN dropped ELSE dropped \cup {m}
        /\ UNCHANGED <<received, bleVars, codecVars, uiVars, mainVars>>

\* cmd = cmd_rx.recv() => match cmd { .. } for the key commands and Exit
RecvAny(ok) ==
    /\ pc = "run"
    /\ chan # <<>>
    /\ LET got == recv(chan)
       IN  /\ chan' = got[2]
           /\ received' = Append(received, got[1])
           /\ CASE got[1].cmd[1] = "KeyDown" -> KeyDownCmd(got[1].cmd[2], ok)
                [] got[1].cmd[1] = "KeyUp" -> KeyUpCmd(got[1].cmd[2], ok)
                [] OTHER -> ExitCmd(ok)
    /\ UNCHANGED <<sends, dropped, insOrder, history, released, radio, codecVars,
                 uiVars, mainVars>>

\* ev = evt_rx.recv() gave None, whatever the command channel holds
EventsClosedChan(ok) ==
    /\ EventsClosed(ok)
    /\ UNCHANGED chanVars
    /\ UNCHANGED <<insOrder, history, released, radio, codecVars, uiVars, mainVars>>

NextExit ==
    \/ \E p \in Producers : AppSend(p)
    \/ ExitSend(ExitSender)
    \/ \E ok \in BOOLEAN : RecvAny(ok)
    \/ \E ok \in BOOLEAN : EventsClosedChan(ok)
    \/ \E sub \in BOOLEAN : SubscriptionUpdate(UUID_HID_REPORT, sub) /\ BleFrame

SpecExit == InitKeys /\ [][NextExit]_vars

\* C39: an Exit command is the last command the run loop receives, and the task
\* has left the loop once it has handled Exit or seen the event channel closed;
\* from then on no command is received, no call is made, the state of the task
\* stays as it is, and a command sent does not enter the channel.
C39_NothingAfterExit ==
    /\ [](\A i \in 1 .. Len(received) :
              received[i].cmd = <<"Exit">> => (i = Len(received) /\ pc # "run"))
    /\ [](handled[1] \in {"Exit", "EventsClosed"} => pc # "run")
    /\ [][handled[1] \in {"Exit", "EventsClosed"}
            => UNCHANGED <<received, chan, pc, handled, calls, modifiers, pressed,
                           input_notify, battery_notify, last_battery,
                           advertising>>]_vars

\* The task has returned after an Exit command; a KeyDown queued behind it is
\* still in the channel and a command sent later was refused.
C39_Witness ==
    /\ pc = "done_ok"
    /\ handled = <<"Exit">>
    /\ Len(chan) = 1
    /\ chan[1].cmd[1] = "KeyDown"
    /\ \E m \in dropped : m.n > chan[1].n /\ m.from = chan[1].from
    /\ pressed = {}

====
